---- MODULE Spec2Model ----
(***************************************************************************)
(* Model of the big-number core of src/3/src/bignum.cpp (the current       *)
(* version of the file, lines 426-830) together with the two casting-out-  *)
(* nines routines that only the earlier version of the file still carries  *)
(* (lines 383-396).                                                        *)
(*                                                                         *)
(* A BigNum is a sequence of limbs, least significant first; limb i of the *)
(* C++ vector is element i+1 of the sequence.                              *)
(*                                                                         *)
(* Width.  The code's limb is uint32_t and its wide intermediate uint64_t. *)
(* TLC's integers are 32 bits wide, so the model keeps the code's          *)
(* structure and scales the limb to LimbBits bits and the wide type to     *)
(* 2*LimbBits bits.  Every 32 of the source is LimbBits here, every        *)
(* 0xFFFFFFFF is LimbMax, 0x80000000 is TopBit, and unsigned wide          *)
(* arithmetic wraps modulo WideMod where the source wraps modulo 2^64.     *)
(* LimbBits = 8 is congruent to 32 modulo 6, hence 2^LimbBits = 4 (mod 9)  *)
(* exactly as 2^32 = 4 (mod 9): the weights 1,4,7 of bignum_digit_root     *)
(* mean the same thing.  It also keeps 10 below the limb base, as the      *)
(* decimal conversions require.                                            *)
(***************************************************************************)
EXTENDS Integers, Sequences, FiniteSets, TLC

VARIABLES
    pc,     \* where the run stands: "input", then the steps of the operation, then "done"
    op,     \* the operation applied
    a, b, c,  \* BigNum operands
    s,      \* decimal text operand
    e,      \* exponent operand
    prime_i,  \* bignum_is_prime: the trial divisor i
    limit,  \* bignum_is_prime: isqrt(a)
    work,   \* the locals of a loop that is followed turn by turn
    out     \* what the operation returned, or that it threw

vars == <<pc, op, a, b, c, s, e, prime_i, limit, work, out>>

---------------------------------------------------------------------------
(* Limb and wide types *)

LimbBits == 8

LimbBase == 2 ^ LimbBits

LimbMax == LimbBase - 1

TopBit == LimbBase \div 2

WideMod == LimbBase * LimbBase

\* static_cast<uint32_t>(x): the low limb of x (x may be negative).
U32(x) == x % LimbBase

\* the wide accumulator narrowed to one limb
U64_one_limb(x) == x % LimbBase

\* a value held in a uint64_t
U64(x) == x % WideMod

\* x << k and x >> k on a limb
Shl32(x, k) == (x * (2 ^ k)) % LimbBase

Shr32(x, k) == x \div (2 ^ k)

\* The number a limb vector stands for (not part of the code: the yardstick
\* the properties are stated against).
RECURSIVE value(_)
value(v) == IF Len(v) = 0 THEN 0 ELSE v[1] + LimbBase * value(Tail(v))

\* value(v) modulo m, limb by limb (no large intermediate)
RECURSIVE value_mod(_, _)
value_mod(v, m) ==
    IF Len(v) = 0 THEN 0 ELSE (v[1] + LimbBase * value_mod(Tail(v), m)) % m

\* the canonical limb vector of the natural number n
RECURSIVE nat_limbs(_)
nat_limbs(n) ==
    IF n < LimbBase THEN <<n>> ELSE <<n % LimbBase>> \o nat_limbs(n \div LimbBase)

Canonical(v) == Len(v) >= 1 /\ (Len(v) > 1 => v[Len(v)] # 0)

---------------------------------------------------------------------------
(* Representation helpers *)

RECURSIVE normalize(_)
normalize(v) ==
    IF Len(v) > 1 /\ v[Len(v)] = 0
    THEN normalize(SubSeq(v, 1, Len(v) - 1))
    ELSE v

zero_bn == <<0>>

one_bn == <<1>>

\* only the most significant limb looked at
bignum_is_zero_top(v) == v[Len(v)] = 0

bignum_is_zero(v) == \A i \in 1..Len(v) : v[i] = 0

---------------------------------------------------------------------------
(* Comparison *)

\* while (sa > 1 && a[sa - 1] == 0) --sa;
RECURSIVE eff_len(_, _)
eff_len(v, n) == IF n > 1 /\ v[n] = 0 THEN eff_len(v, n - 1) ELSE n

\* the limb loop of bignum_cmp, i counting down from sa-1 to 0
RECURSIVE cmp_limbs(_, _, _)
cmp_limbs(x, y, i) ==
    IF i < 0 THEN 0
    ELSE IF x[i + 1] < y[i + 1] THEN -1
    ELSE IF x[i + 1] > y[i + 1] THEN 1
    ELSE cmp_limbs(x, y, i - 1)

bignum_cmp_nolen(x, y) ==
    LET sa == Len(x)
        sb == Len(y)
    IN IF sa # sb THEN (IF sa < sb THEN -1 ELSE 1)
       ELSE cmp_limbs(x, y, sa - 1)

bignum_cmp(x, y) ==
    LET sa == eff_len(x, Len(x))
        sb == eff_len(y, Len(y))
    IN IF sa # sb THEN (IF sa < sb THEN -1 ELSE 1)
       ELSE cmp_limbs(x, y, sa - 1)

---------------------------------------------------------------------------
(* Addition *)

Limb(v, i) == IF i < Len(v) THEN v[i + 1] ELSE 0

\* the carry loop of bignum_add; result is built limb by limb
RECURSIVE add_loop(_, _, _, _, _, _)
add_loop(x, y, n, i, carry, result) ==
    IF i >= n THEN Append(result, U32(carry))
    ELSE LET sum == U64(Limb(x, i) + Limb(y, i) + carry)
         IN add_loop(x, y, n, i + 1, sum \div LimbBase,
                     Append(result, U32(sum)))

\* the carry out of the most significant limb not stored
bignum_add_dropcarry(x, y) ==
    LET n == IF Len(x) >= Len(y) THEN Len(x) ELSE Len(y)
        full == add_loop(x, y, n, 0, 0, <<>>)
    IN normalize(SubSeq(full, 1, n))

\* a carry loop that runs over x's limbs only
bignum_add_lenx(x, y) ==
    normalize(add_loop(x, y, Len(x), 0, 0, <<>>))

bignum_add(x, y) ==
    LET n == IF Len(x) >= Len(y) THEN Len(x) ELSE Len(y)
    IN normalize(add_loop(x, y, n, 0, 0, <<>>))

---------------------------------------------------------------------------
(* Subtraction *)

\* the borrow loop of bignum_sub over the limbs of x; diff is an int64_t.
\* Returns the limbs written and the borrow left after the last limb.
RECURSIVE sub_loop(_, _, _, _, _)
sub_loop(x, y, i, borrow, result) ==
    IF i >= Len(x) THEN [res |-> result, borrow |-> borrow]
    ELSE LET diff == x[i + 1] - Limb(y, i) - borrow
         IN IF diff < 0
            THEN sub_loop(x, y, i + 1, 1, Append(result, U32(diff + LimbBase)))
            ELSE sub_loop(x, y, i + 1, 0, Append(result, U32(diff)))

\* the borrow never carried to the next limb
RECURSIVE sub_loop_noborrow(_, _, _, _)
sub_loop_noborrow(x, y, i, result) ==
    IF i >= Len(x) THEN result
    ELSE sub_loop_noborrow(x, y, i + 1,
                           Append(result, U32(x[i + 1] - Limb(y, i))))

bignum_sub_noborrow(x, y) == normalize(sub_loop_noborrow(x, y, 0, <<>>))

\* the result returned as the loop left it
bignum_sub_nonorm(x, y) == sub_loop(x, y, 0, 0, <<>>).res

bignum_sub(x, y) == normalize(sub_loop(x, y, 0, 0, <<>>).res)

---------------------------------------------------------------------------
(* Multiplication (schoolbook) *)

\* inner loop over j for a fixed i; returns the updated result vector
RECURSIVE mul_inner(_, _, _, _, _, _)
mul_inner(x, y, i, j, carry, result) ==
    IF j >= Len(y)
    THEN [result EXCEPT ![i + Len(y) + 1] = U32(@ + U32(carry))]
    ELSE LET cur == U64(x[i + 1] * y[j + 1] + result[i + j + 1] + carry)
         IN mul_inner(x, y, i, j + 1, cur \div LimbBase,
                      [result EXCEPT ![i + j + 1] = U32(cur)])

RECURSIVE mul_outer(_, _, _, _)
mul_outer(x, y, i, result) ==
    IF i >= Len(x) THEN result
    ELSE mul_outer(x, y, i + 1, mul_inner(x, y, i, 0, 0, result))

\* the zero short-circuit on the first operand only, and no normalize
bignum_mul_rawzero(x, y) ==
    IF bignum_is_zero(x) THEN zero_bn
    ELSE mul_outer(x, y, 0, [k \in 1..(Len(x) + Len(y)) |-> 0])

bignum_mul(x, y) ==
    IF bignum_is_zero(x) \/ bignum_is_zero(y) THEN zero_bn
    ELSE normalize(mul_outer(x, y, 0, [k \in 1..(Len(x) + Len(y)) |-> 0]))

---------------------------------------------------------------------------
(* Division: Knuth's Algorithm D *)

\* while ((msv & 0x80000000u) == 0) { msv <<= 1; ++shift; }
RECURSIVE count_shift(_, _)
count_shift(msv, shift) ==
    IF msv >= TopBit THEN shift
    ELSE count_shift(Shl32(msv, 1), shift + 1)

\* u.push_back(0); every limb takes its own bits shifted left and the bits
\* shifted out of the limb below (the loop runs downwards, so u[i-1] is
\* still the old limb when u[i] is written).
shl_u(u, shift) ==
    LET u0 == Append(u, 0)
    IN [i \in 1..Len(u0) |->
          IF i = 1 THEN Shl32(u0[1], shift)
          ELSE Shl32(u0[i], shift) + Shr32(u0[i - 1], LimbBits - shift)]

\* the upward loop over v with the carried-over bits in prev; returns the
\* shifted vector and the bits shifted out of the top limb
RECURSIVE shl_v_loop(_, _, _, _)
shl_v_loop(v, shift, i, prev) ==
    IF i >= Len(v) THEN [v |-> v, prev |-> prev]
    ELSE LET next == Shr32(v[i + 1], LimbBits - shift)
         IN shl_v_loop([v EXCEPT ![i + 1] = Shl32(@, shift) + prev],
                       shift, i + 1, next)

shl_v(v, shift) == shl_v_loop(v, shift, 0, 0)

\* while (u.size() < n + m + 1) u.push_back(0);
RECURSIVE pad_to(_, _)
pad_to(u, len) == IF Len(u) < len THEN pad_to(Append(u, 0), len) ELSE u

\* The first estimate of the quotient digit, as the code computes it.
qhat_estimate(u_hi, u_lo, vn1) ==
    IF u_hi >= vn1
    THEN [qhat |-> LimbMax, rhat |-> U64(u_hi - vn1 + u_lo)]
    ELSE LET num == u_hi * LimbBase + u_lo
         IN [qhat |-> num \div vn1, rhat |-> num % vn1]

\* while (qhat > 0xFFFFFFFF || qhat * vn2 > ((rhat << 32) | u_lo2))
\*     { --qhat; rhat += vn1; if (rhat > 0xFFFFFFFF) break; }
RECURSIVE qhat_refine(_, _, _, _, _)
qhat_refine(qhat, rhat, vn1, vn2, u_lo2) ==
    IF qhat > LimbMax \/ U64(qhat * vn2) > U64(rhat * LimbBase) + u_lo2
    THEN LET q2 == U64(qhat - 1)
             r2 == U64(rhat + vn1)
         IN IF r2 > LimbMax THEN [qhat |-> q2, rhat |-> r2]
            ELSE qhat_refine(q2, r2, vn1, vn2, u_lo2)
    ELSE [qhat |-> qhat, rhat |-> rhat]

\* Multiply and subtract: u[j..j+n] -= qhat * v.  t and borrow are int64_t
\* in the code; they stay far inside its range, so they are plain integers
\* here.  Returns the new u and the last t (negative on underflow).
RECURSIVE mulsub_loop(_, _, _, _, _, _)
mulsub_loop(u, v, qhat, j, i, borrow) ==
    IF i >= Len(v)
    THEN LET t == u[j + Len(v) + 1] - borrow
         IN [u |-> [u EXCEPT ![j + Len(v) + 1] = U32(t)], t |-> t]
    ELSE LET p == U64(qhat * v[i + 1])
             t == u[j + i + 1] - (p % LimbBase) - borrow
         IN mulsub_loop([u EXCEPT ![j + i + 1] = U32(t)], v, qhat, j, i + 1,
                        (p \div LimbBase) - (t \div LimbBase))

\* Add the divisor back once: u[j..j+n] += v.
RECURSIVE addback_loop(_, _, _, _, _)
addback_loop(u, v, j, i, carry2) ==
    IF i >= Len(v)
    THEN [u EXCEPT ![j + Len(v) + 1] = U32(@ + U32(carry2))]
    ELSE LET sm == U64(u[j + i + 1] + v[i + 1] + carry2)
         IN addback_loop([u EXCEPT ![j + i + 1] = U32(sm)], v, j, i + 1,
                         sm \div LimbBase)

\* One pass of the quotient loop, at position j.
div_step(u, v, q, j) ==
    LET n == Len(v)
        vn1 == v[n]
        vn2 == IF n >= 2 THEN v[n - 1] ELSE 0
        u_hi == u[j + n + 1]
        u_lo == u[j + n]
        u_lo2 == IF n >= 2 THEN u[j + n - 1] ELSE 0
        est == qhat_estimate(u_hi, u_lo, vn1)
        ref == qhat_refine(est.qhat, est.rhat, vn1, vn2, u_lo2)
        ms == mulsub_loop(u, v, ref.qhat, j, 0, 0)
    IN IF ms.t < 0
       THEN [u |-> addback_loop(ms.u, v, j, 0, 0),
             q |-> [q EXCEPT ![j + 1] = U32(U32(ref.qhat) - 1)],
             qhat |-> ref.qhat, addback |-> TRUE, top_eq |-> u_hi >= vn1]
       ELSE [u |-> ms.u,
             q |-> [q EXCEPT ![j + 1] = U32(ref.qhat)],
             qhat |-> ref.qhat, addback |-> FALSE, top_eq |-> u_hi >= vn1]

\* The multiply-subtract loop again, keeping what it computed before any
\* conversion: the product p = qhat * v[i] as a number, the difference t and
\* the borrow carried on, one entry per limb and one for the top limb.
RECURSIVE mulsub_trace(_, _, _, _, _, _, _)
mulsub_trace(u, v, qhat, j, i, borrow, trace) ==
    IF i >= Len(v)
    THEN Append(trace, [p |-> 0, t |-> u[j + Len(v) + 1] - borrow,
                        borrow |-> borrow])
    ELSE LET raw == qhat * v[i + 1]
             p == U64(raw)
             t == u[j + i + 1] - (p % LimbBase) - borrow
             next == (p \div LimbBase) - (t \div LimbBase)
         IN mulsub_trace([u EXCEPT ![j + i + 1] = U32(t)], v, qhat, j, i + 1,
                         next,
                         Append(trace, [p |-> raw, t |-> t, borrow |-> next]))

\* for (int j = m; j >= 0; --j)
RECURSIVE div_loop(_, _, _, _)
div_loop(u, v, q, j) ==
    IF j < 0 THEN [u |-> u, q |-> q]
    ELSE LET st == div_step(u, v, q, j)
         IN div_loop(st.u, v, st.q, j - 1)

\* The remainder: the low n limbs of u shifted right by shift.
div_rem(u, n, shift) ==
    LET rem == SubSeq(u, 1, n)
    IN IF shift > 0
       THEN [i \in 1..n |->
               IF i < n
               THEN Shr32(rem[i], shift) + Shl32(rem[i + 1], LimbBits - shift)
               ELSE Shr32(rem[n], shift)]
       ELSE rem

Thrown == [err |-> TRUE, q |-> <<>>, r |-> <<>>]

Returned(q, r) == [err |-> FALSE, q |-> q, r |-> r]

\* divmod_knuth with the quotient buffer returned as the loop left it
divmod_knuth_rawq(x, y) ==
    LET u0 == normalize(x)
        v0 == normalize(y)
        n == Len(v0)
        m == Len(u0) - n
        shift == count_shift(v0[n], 0)
        u1 == IF shift > 0 THEN shl_u(u0, shift) ELSE u0
        v == IF shift > 0 THEN shl_v(v0, shift).v ELSE v0
        u == pad_to(u1, n + m + 1)
        fin == div_loop(u, v, [k \in 1..(m + 1) |-> 0], m)
    IN Returned(fin.q, normalize(div_rem(fin.u, n, shift)))

\* the part of bignum_divmod after the three early exits
divmod_knuth(x, y) ==
    LET u0 == normalize(x)
        v0 == normalize(y)
        n == Len(v0)
        m == Len(u0) - n
        shift == count_shift(v0[n], 0)
        u1 == IF shift > 0 THEN shl_u(u0, shift) ELSE u0
        v == IF shift > 0 THEN shl_v(v0, shift).v ELSE v0
        u == pad_to(u1, n + m + 1)
        fin == div_loop(u, v, [k \in 1..(m + 1) |-> 0], m)
    IN Returned(normalize(fin.q), normalize(div_rem(fin.u, n, shift)))

bignum_divmod(x, y) ==
    IF bignum_is_zero(y) THEN Thrown
    ELSE LET cmp == bignum_cmp(x, y)
         IN IF cmp < 0 THEN Returned(zero_bn, x)
            ELSE IF cmp = 0 THEN Returned(one_bn, zero_bn)
            ELSE divmod_knuth(x, y)

---------------------------------------------------------------------------
(* Decimal conversion.  A string is a sequence of character codes. *)

Ch0 == 48

\* the code of the decimal digit d
DigitCh(d) == Ch0 + d

\* the string "0"
StrZero == <<Ch0>>

\* the limb loop of bignum_from_decimal for one character: result*10 + carry
RECURSIVE from_decimal_limbs(_, _, _)
from_decimal_limbs(result, k, carry) ==
    IF k >= Len(result)
    THEN IF carry # 0 THEN Append(result, U32(carry)) ELSE result
    ELSE LET cur == U64(result[k + 1] * 10 + carry)
         IN from_decimal_limbs([result EXCEPT ![k + 1] = U32(cur)], k + 1,
                               cur \div LimbBase)

\* for (char c : s)
RECURSIVE from_decimal_chars(_, _, _)
from_decimal_chars(str, k, result) ==
    IF k > Len(str) THEN result
    ELSE from_decimal_chars(str, k + 1,
             from_decimal_limbs(result, 0, U64(str[k] - Ch0)))

\* the character loop started at the second character
bignum_from_decimal_skipfirst(str) ==
    IF str = <<>> \/ str = StrZero THEN zero_bn
    ELSE normalize(from_decimal_chars(str, 2, <<0>>))

bignum_from_decimal(str) ==
    IF str = <<>> \/ str = StrZero THEN zero_bn
    ELSE normalize(from_decimal_chars(str, 1, <<0>>))

\* find_first_not_of('0') followed by substr, "0" when there is no other digit
RECURSIVE strip_zeros(_)
strip_zeros(str) ==
    IF Len(str) = 0 THEN StrZero
    ELSE IF str[1] = Ch0 THEN strip_zeros(Tail(str))
    ELSE str

\* the character loop of decimal_divmod_inplace (earlier version of the
\* file): long division of a decimal string by divisor
RECURSIVE ddi_chars(_, _, _, _, _)
ddi_chars(str, divisor, k, remainder, result) ==
    IF k > Len(str) THEN [str |-> result, rem |-> remainder]
    ELSE LET r == U64(remainder * 10 + U64(str[k] - Ch0))
         IN ddi_chars(str, divisor, k + 1, r % divisor,
                      Append(result, Ch0 + (r \div divisor)))

\* returns the quotient string and the remainder
decimal_divmod_inplace(str, divisor) ==
    LET d == ddi_chars(str, divisor, 1, 0, <<>>)
    IN [str |-> strip_zeros(d.str), rem |-> U32(d.rem)]

\* while (tmp != "0") result.push_back(decimal_divmod_inplace(tmp, 2^32))
RECURSIVE from_decimal_div_loop(_, _)
from_decimal_div_loop(tmp, result) ==
    IF tmp = StrZero THEN result
    ELSE LET d == decimal_divmod_inplace(tmp, LimbBase)
         IN from_decimal_div_loop(d.str, Append(result, d.rem))

\* bignum_from_decimal of the earlier version of the file
bignum_from_decimal_div(str) ==
    IF str = <<>> \/ str = StrZero THEN zero_bn
    ELSE LET result == from_decimal_div_loop(strip_zeros(str), <<>>)
         IN IF result = <<>> THEN <<0>> ELSE result

\* the digit loop of decimal_mul_add, k running from the last character to
\* the first; returns the rewritten string and the carry left over
RECURSIVE dma_digits(_, _, _, _)
dma_digits(str, factor, k, carry) ==
    IF k < 1 THEN [str |-> str, carry |-> carry]
    ELSE LET v == (str[k] - Ch0) * factor + carry
         IN dma_digits([str EXCEPT ![k] = Ch0 + (v % 10)], factor, k - 1,
                       v \div 10)

\* while (carry) { s.insert(s.begin(), '0' + carry % 10); carry /= 10; }
RECURSIVE dma_carry(_, _)
dma_carry(str, carry) ==
    IF carry = 0 THEN str
    ELSE dma_carry(<<Ch0 + (carry % 10)>> \o str, carry \div 10)

decimal_mul_add(str, factor, addend) ==
    LET d == dma_digits(str, factor, Len(str), addend)
    IN dma_carry(d.str, d.carry)

\* result = "0"; for (i = size-1; i >= 0; --i) decimal_mul_add(result, 2^32, a[i])
RECURSIVE to_decimal_limbs(_, _, _)
to_decimal_limbs(v, k, result) ==
    IF k < 0 THEN result
    ELSE to_decimal_limbs(v, k - 1, decimal_mul_add(result, LimbBase, v[k + 1]))

\* the conversion of the earlier version of the file, and the base case of
\* the current one
to_decimal_direct(v) ==
    IF bignum_is_zero(v) THEN StrZero
    ELSE to_decimal_limbs(v, Len(v) - 1, StrZero)

\* a.size() * 9633 / 1000 + 1, where 9.633 is the number of decimal digits
\* in one limb (32 * log10 2, rounded up to thousandths); the same rounding
\* for a limb of LimbBits bits
DigitsPerLimbMilli == (LimbBits * 30103 + 99) \div 100

decimal_digits_estimate(v) == (Len(v) * DigitsPerLimbMilli) \div 1000 + 1

\* bignum_pow10_cached without the look-up: every request multiplies the
\* power out again
RECURSIVE bignum_pow10_nolookup(_, _)
bignum_pow10_nolookup(k, cache) ==
    IF k = 0 THEN [val |-> <<1>>, cache |-> (0 :> <<1>>) @@ cache,
                   made |-> <<0>>]
    ELSE IF k = 1 THEN [val |-> <<10>>, cache |-> (1 :> <<10>>) @@ cache,
                        made |-> <<1>>]
    ELSE LET half == bignum_pow10_nolookup(k \div 2, cache)
             sq == bignum_mul(half.val, half.val)
             result == IF k % 2 = 1 THEN bignum_mul(sq, <<10>>) ELSE sq
         IN [val |-> result, cache |-> (k :> result) @@ half.cache,
             made |-> Append(half.made, k)]

\* The cache is a function from exponents to BigNums.  Returns the power,
\* the cache after the call, and the exponents this call computed (the
\* entries it emplaced), in the order it computed them.  emplace keeps an
\* entry that is already there; the look-up at the top means there is none.
RECURSIVE bignum_pow10_cached(_, _)
bignum_pow10_cached(k, cache) ==
    IF k \in DOMAIN cache
    THEN [val |-> cache[k], cache |-> cache, made |-> <<>>]
    ELSE IF k = 0 THEN [val |-> <<1>>, cache |-> (0 :> <<1>>) @@ cache,
                        made |-> <<0>>]
    ELSE IF k = 1 THEN [val |-> <<10>>, cache |-> (1 :> <<10>>) @@ cache,
                        made |-> <<1>>]
    ELSE LET half == bignum_pow10_cached(k \div 2, cache)
             sq == bignum_mul(half.val, half.val)
             result == IF k % 2 = 1 THEN bignum_mul(sq, <<10>>) ELSE sq
         IN [val |-> result, cache |-> (k :> result) @@ half.cache,
             made |-> Append(half.made, k)]

\* The limb count up to which the direct conversion is used.  The source
\* sets it to 32 limbs (about 300 decimal digits); the model sets it to 4 so
\* that numbers on both sides of it are within reach.  Nothing in the
\* algorithm depends on the figure beyond which side a number falls on.
DC_THRESHOLD_LIMBS == 4

\* lo_str.insert(0, k - lo_str.size(), '0') when lo_str is shorter than k
pad_zeros(str, k) ==
    IF Len(str) < k THEN [j \in 1..(k - Len(str)) |-> Ch0] \o str ELSE str

EmptyCache == [k \in {} |-> <<>>]

\* Returns the string and the cache after the call (the divisor 10^k is
\* never zero, so bignum_divmod does not throw here).
RECURSIVE to_decimal_dc(_, _)
to_decimal_dc(v, cache) ==
    IF Len(v) <= DC_THRESHOLD_LIMBS
    THEN [str |-> to_decimal_direct(v), cache |-> cache]
    ELSE LET k == decimal_digits_estimate(v) \div 2
             mid == bignum_pow10_cached(k, cache)
             qr == bignum_divmod(v, mid.val)
             hi == to_decimal_dc(qr.q, mid.cache)
             lo == to_decimal_dc(qr.r, hi.cache)
         IN [str |-> hi.str \o pad_zeros(lo.str, k), cache |-> lo.cache]

bignum_to_decimal(v) ==
    IF bignum_is_zero(v) THEN StrZero
    ELSE to_decimal_dc(v, EmptyCache).str

---------------------------------------------------------------------------
(* Power *)

\* for (int i = 1; i < exp; ++i) result = bignum_mul(result, base);
RECURSIVE pow_loop(_, _, _, _)
pow_loop(base, exp, k, result) ==
    IF k >= exp THEN result
    ELSE pow_loop(base, exp, k + 1, bignum_mul(result, base))

ThrownVal == [err |-> TRUE, val |-> <<>>]

ReturnedVal(v) == [err |-> FALSE, val |-> v]

\* the loop started at i = 0: one multiplication too many
bignum_pow_from0(base, exp) ==
    IF exp < 1 \/ exp > 3 THEN ThrownVal
    ELSE ReturnedVal(pow_loop(base, exp, 0, base))

bignum_pow(base, exp) ==
    IF exp < 1 \/ exp > 3 THEN ThrownVal
    ELSE ReturnedVal(pow_loop(base, exp, 1, base))

---------------------------------------------------------------------------
(* Integer square root (Newton) *)

\* while (top >>= 1) ++bits;
RECURSIVE isqrt_bits(_, _)
isqrt_bits(top, bits) ==
    IF top \div 2 # 0 THEN isqrt_bits(top \div 2, bits + 1) ELSE bits

\* sum / 2: the downward loop with the bit carried into the limb below
RECURSIVE halve_loop(_, _, _, _)
halve_loop(sum, k, carry, x_new) ==
    IF k < 0 THEN x_new
    ELSE LET cur == carry * LimbBase + sum[k + 1]
         IN halve_loop(sum, k - 1, cur % 2,
                       [x_new EXCEPT ![k + 1] = U32(cur \div 2)])

halve(sum) == halve_loop(sum, Len(sum) - 1, 0, [k \in 1..Len(sum) |-> 0])

\* half_bits rounded down instead of up
isqrt_x0_floor(v) ==
    LET bits == isqrt_bits(v[Len(v)], (Len(v) - 1) * LimbBits) + 1
        half_bits == bits \div 2
    IN normalize([k \in 1..(half_bits \div LimbBits + 1) |->
           IF k = half_bits \div LimbBits + 1
           THEN Shl32(1, half_bits % LimbBits) ELSE 0])

isqrt_x0(v) ==
    LET bits == isqrt_bits(v[Len(v)], (Len(v) - 1) * LimbBits) + 1
        half_bits == (bits + 1) \div 2
    IN normalize([k \in 1..(half_bits \div LimbBits + 1) |->
           IF k = half_bits \div LimbBits + 1
           THEN Shl32(1, half_bits % LimbBits) ELSE 0])

\* while (true) { ... if (bignum_cmp(x_new, x) >= 0) break; x = x_new; }
\* An exception of bignum_divmod leaves the function.
RECURSIVE isqrt_loop(_, _)
isqrt_loop(v, x) ==
    LET qr == bignum_divmod(v, x)
        x_new == normalize(halve(bignum_add(x, qr.q)))
    IN IF qr.err THEN ThrownVal
       ELSE IF bignum_cmp(x_new, x) >= 0 THEN ReturnedVal(x)
       ELSE isqrt_loop(v, x_new)

bignum_isqrt(v) ==
    IF bignum_is_zero(v) THEN ReturnedVal(zero_bn)
    ELSE isqrt_loop(v, isqrt_x0(v))

---------------------------------------------------------------------------
(* Casting out nines *)

pow4mod9 == <<1, 4, 7>>

\* current version: the limb-weight sum.  The uint64_t sum is at most
\* 8 + 7 * LimbMax, which never wraps.
RECURSIVE digit_root_loop(_, _, _)
digit_root_loop(v, k, sum) ==
    IF k >= Len(v) THEN sum
    ELSE digit_root_loop(v, k + 1, (sum + v[k + 1] * pow4mod9[(k % 3) + 1]) % 9)

\* the weights taken as 1, 4 alternating
RECURSIVE digit_root_loop2(_, _, _)
digit_root_loop2(v, k, sum) ==
    IF k >= Len(v) THEN sum
    ELSE digit_root_loop2(v, k + 1, (sum + v[k + 1] * pow4mod9[(k % 2) + 1]) % 9)

bignum_digit_root_period2(v) == digit_root_loop2(v, 0, 0) % 9

bignum_digit_root(v) == digit_root_loop(v, 0, 0) % 9

\* for (char c : dec) sum += (c - '0');
RECURSIVE digit_sum(_)
digit_sum(str) ==
    IF Len(str) = 0 THEN 0 ELSE (str[1] - Ch0) + digit_sum(Tail(str))

\* earlier version: the digit sum of the decimal string
bignum_digit_root_dec(v) == digit_sum(to_decimal_direct(v)) % 9

\* the two roots added and compared without the reduction modulo 9
bignum_verify_add_nomod(x, y, sum) ==
    bignum_digit_root_dec(x) + bignum_digit_root_dec(y)
        = bignum_digit_root_dec(sum)

\* earlier version of the file, where bignum_digit_root is the digit sum of
\* the decimal string
bignum_verify_add(x, y, sum) ==
    LET ra == bignum_digit_root_dec(x)
        rb == bignum_digit_root_dec(y)
        rs == bignum_digit_root_dec(sum)
    IN (ra + rb) % 9 = rs % 9

\* the calculator's own check after an addition (do_execute, case 0), on the
\* limb-weight bignum_digit_root
con_check(bn_a, bn_b) ==
    LET sum == bignum_add(bn_a, bn_b)
        ra == bignum_digit_root(bn_a)
        rb == bignum_digit_root(bn_b)
        rs == bignum_digit_root(sum)
    IN [ra |-> ra, rb |-> rb, rs |-> rs, ok |-> (ra + rb) % 9 = rs % 9]

---------------------------------------------------------------------------
(* Validation of decimal text *)

Ch9 == 57

\* the leading-zero test left out
bignum_is_valid_decimal_anylead(str) ==
    IF Len(str) = 0 THEN FALSE
    ELSE IF \E k \in 1..Len(str) : str[k] < Ch0 \/ str[k] > Ch9 THEN FALSE
    ELSE TRUE

bignum_is_valid_decimal(str) ==
    IF Len(str) = 0 THEN FALSE
    ELSE IF \E k \in 1..Len(str) : str[k] < Ch0 \/ str[k] > Ch9 THEN FALSE
    ELSE IF Len(str) > 1 /\ str[1] = Ch0 THEN FALSE
    ELSE TRUE

---------------------------------------------------------------------------
(* Inputs *)

\* every limb vector of 1..n limbs over the limb values L, redundant top
\* zero limbs included
BigNums(L, n) == UNION {[1..k -> L] : k \in 1..n}

NoOut == [err |-> FALSE]

\* no loop under way
NoWork == <<>>

---------------------------------------------------------------------------
(* Division on its own: a pair of operands, then bignum_divmod *)

MaxLenA == 3

MaxLenB == 2

DivLimbs == {0, 1, 2, 16, 128, 255}

InitDiv ==
    /\ pc = "input"
    /\ op = "none"
    /\ a \in BigNums(DivLimbs, MaxLenA)
    /\ b \in BigNums(DivLimbs, MaxLenB)
    /\ c = zero_bn
    /\ s = <<>>
    /\ e = 0
    /\ prime_i = zero_bn
    /\ limit = zero_bn
    /\ work = NoWork
    /\ out = NoOut

Divmod ==
    /\ pc = "input"
    /\ pc' = "done"
    /\ op' = "divmod"
    /\ out' = bignum_divmod(a, b)
    /\ UNCHANGED <<a, b, c, s, e, prime_i, limit, work>>

NextDiv == Divmod

SpecDiv == InitDiv /\ [][NextDiv]_vars

\* value(x) = value(q) * value(y) + value(r), stated without forming the
\* product (value(y) > 0): r is at most x and q is the exact quotient of
\* x - r by y.
DivEq(x, y, q, r) ==
    /\ value(r) <= value(x)
    /\ (value(x) - value(r)) % value(y) = 0
    /\ (value(x) - value(r)) \div value(y) = value(q)

DivDone == pc = "done" /\ op = "divmod"

\* C1: for canonical a and b with b > 0, bignum_divmod(a, b) = (q, r) has
\* value(a) = value(q) * value(b) + value(r) and cmp(r, b) < 0.
C1_DivisionInvariant ==
    (DivDone /\ Canonical(a) /\ Canonical(b) /\ ~bignum_is_zero(b)) =>
        /\ ~out.err
        /\ DivEq(a, b, out.q, out.r)
        /\ bignum_cmp(out.r, b) < 0

\* C6: bignum_divmod throws, and produces no quotient or remainder, exactly
\* when every limb of b is zero ([0,0] included); for any other b it returns.
C6_DivByZero ==
    DivDone =>
        /\ out.err <=> (\A k \in 1..Len(b) : b[k] = 0)
        /\ out.err => (out.q = <<>> /\ out.r = <<>>)
        /\ ~out.err => (Len(out.q) >= 1 /\ Len(out.r) >= 1)

\* a division by the two-limb zero [0,0] has thrown
C6_Witness == DivDone /\ Len(b) = 2 /\ b[1] = 0 /\ b[2] = 0 /\ out.err

---------------------------------------------------------------------------
(* Decimal text in, BigNum, decimal text out *)

MaxDigits == 4

LongDigits == 11

Digits == 0..9

\* every digit string of 0..MaxDigits characters, leading zeros included
ShortStrs == UNION {[1..n -> {DigitCh(d) : d \in Digits}] : n \in 0..MaxDigits}

\* strings of LongDigits digits 1 and 9: every one of them needs more than
\* DC_THRESHOLD_LIMBS limbs
LongStrs == [1..LongDigits -> {DigitCh(1), DigitCh(9)}]

InitStr ==
    /\ pc = "input"
    /\ op = "none"
    /\ s \in ShortStrs \cup LongStrs
    /\ a = zero_bn
    /\ b = zero_bn
    /\ c = zero_bn
    /\ e = 0
    /\ prime_i = zero_bn
    /\ limit = zero_bn
    /\ work = NoWork
    /\ out = NoOut

FromDecimal ==
    /\ pc = "input"
    /\ pc' = "parsed"
    /\ op' = "from_decimal"
    /\ a' = bignum_from_decimal(s)
    /\ out' = NoOut
    /\ UNCHANGED <<b, c, s, e, prime_i, limit, work>>

ToDecimal ==
    /\ pc = "parsed"
    /\ pc' = "done"
    /\ op' = "to_decimal"
    /\ out' = [err |-> FALSE, str |-> bignum_to_decimal(a)]
    /\ UNCHANGED <<a, b, c, s, e, prime_i, limit, work>>

\* the division-based conversion of the earlier version
FromDecimalDiv ==
    /\ pc = "input"
    /\ pc' = "done"
    /\ op' = "from_decimal_div"
    /\ a' = bignum_from_decimal_div(s)
    /\ out' = NoOut
    /\ UNCHANGED <<b, c, s, e, prime_i, limit, work>>

NextStr == FromDecimal \/ ToDecimal \/ FromDecimalDiv

SpecStr == InitStr /\ [][NextStr]_vars

StrDone == pc = "done" /\ op = "to_decimal"

\* C2: for every string s accepted by bignum_is_valid_decimal,
\* bignum_to_decimal(bignum_from_decimal(s)) = s, below and above the
\* divide-and-conquer threshold.
C2_RoundTrip ==
    (StrDone /\ bignum_is_valid_decimal(s)) => out.str = s

---------------------------------------------------------------------------
(* One operand: square root, power, digit root *)

MaxLenU == 4

UnaryLimbs == {0, 1, 8, 16, 255}

ExpRange == (-1)..5

InitUnary ==
    /\ pc = "input"
    /\ op = "none"
    /\ a \in BigNums(UnaryLimbs, MaxLenU)
    /\ b = zero_bn
    /\ c = zero_bn
    /\ s = <<>>
    /\ e = 0
    /\ prime_i = zero_bn
    /\ limit = zero_bn
    /\ work = NoWork
    /\ out = NoOut

Isqrt ==
    /\ pc = "input"
    /\ pc' = "done"
    /\ op' = "isqrt"
    /\ out' = bignum_isqrt(a)
    /\ UNCHANGED <<a, b, c, s, e, prime_i, limit, work>>

Pow ==
    /\ pc = "input"
    /\ pc' = "done"
    /\ op' = "pow"
    /\ \E exp \in ExpRange :
          /\ e' = exp
          /\ out' = bignum_pow(a, exp)
    /\ UNCHANGED <<a, b, c, s, prime_i, limit, work>>

DigitRoot ==
    /\ pc = "input"
    /\ pc' = "done"
    /\ op' = "digit_root"
    /\ out' = [err |-> FALSE, val |-> bignum_digit_root(a),
               dec |-> bignum_digit_root_dec(a)]
    /\ UNCHANGED <<a, b, c, s, e, prime_i, limit, work>>

NextUnary == Isqrt \/ Pow \/ DigitRoot

SpecUnary == InitUnary /\ [][NextUnary]_vars

UnaryDone(name) == pc = "done" /\ op = name

\* C3: for canonical a, x = bignum_isqrt(a) is the floor square root:
\* value(x)^2 <= value(a) < (value(x)+1)^2.
C3_SqrtBracket ==
    (UnaryDone("isqrt") /\ Canonical(a) /\ Len(a) <= 3) =>
        /\ ~out.err
        /\ Len(out.val) <= 3
        /\ value(out.val) * value(out.val) <= value(a)
        /\ value(a) < (value(out.val) + 1) * (value(out.val) + 1)

C5_NineForNonZero ==
    UnaryDone("digit_root") =>
        IF \A k \in 1..Len(a) : a[k] = 0 THEN out.val = 0
        ELSE IF value_mod(a, 9) = 0 THEN out.val = 9
        ELSE out.val = value_mod(a, 9)

\* the largest base whose exp-th power still fits a 31-bit integer
PowMaxBase(exp) == IF exp = 3 THEN 1290 ELSE IF exp = 2 THEN 46340 ELSE 16777215

PowFits(base, exp) ==
    Len(base) <= 3 /\ value(base) <= PowMaxBase(exp)

\* C7: bignum_pow throws for every exponent outside {1,2,3}; for 1, 2, 3 it
\* returns value(base)^exp, and for exp = 1 the base itself.
C7_Pow ==
    UnaryDone("pow") =>
        /\ out.err <=> (e < 1 \/ e > 3)
        /\ (~out.err /\ e = 1) => out.val = a
        /\ (~out.err /\ PowFits(a, e)) =>
              normalize(out.val) = nat_limbs(value(a) ^ e)

\* a two-limb base has been cubed
C7_Witness ==
    /\ UnaryDone("pow")
    /\ e = 3
    /\ Canonical(a) /\ Len(a) = 2
    /\ PowFits(a, e)
    /\ ~out.err
    /\ Len(out.val) > Len(a)

---------------------------------------------------------------------------
(* bignum_is_prime, one trial division per step *)

\* the natural numbers 0..PrimeSmallMax are all tried
PrimeSmallMax == 600

\* three-limb inputs: primes and products of two two-limb primes
PrimeLarge == {65537, 66049, 134407, 398059, 668917}

InitPrime ==
    /\ pc = "input"
    /\ op = "none"
    /\ a \in {nat_limbs(n) : n \in (0..PrimeSmallMax) \cup PrimeLarge}
    /\ b = zero_bn
    /\ c = zero_bn
    /\ s = <<>>
    /\ e = 0
    /\ prime_i = zero_bn
    /\ limit = zero_bn
    /\ work = NoWork
    /\ out = NoOut

\* the small cases, the parity check, and the set-up of the loop
PrimeStart ==
    /\ pc = "input"
    /\ op' = "is_prime"
    /\ LET dec == bignum_to_decimal(a)
       IN  IF dec = <<DigitCh(0)>> \/ dec = <<DigitCh(1)>>
           THEN pc' = "done" /\ out' = [err |-> FALSE, val |-> FALSE]
                /\ UNCHANGED <<prime_i, limit, work>>
           ELSE IF dec = <<DigitCh(2)>> \/ dec = <<DigitCh(3)>>
           THEN pc' = "done" /\ out' = [err |-> FALSE, val |-> TRUE]
                /\ UNCHANGED <<prime_i, limit, work>>
           ELSE IF a[1] % 2 = 0
           THEN pc' = "done" /\ out' = [err |-> FALSE, val |-> FALSE]
                /\ UNCHANGED <<prime_i, limit, work>>
           ELSE /\ pc' = "trial"
                /\ limit' = bignum_isqrt(a).val
                /\ prime_i' = bignum_from_decimal(<<DigitCh(3)>>)
                /\ out' = out
    /\ UNCHANGED <<a, b, c, s, e, work>>

\* one turn of the while loop, or its exit
PrimeTrial ==
    /\ pc = "trial"
    /\ IF bignum_cmp(prime_i, limit) <= 0
       THEN LET rem == bignum_divmod(a, prime_i).r
            IN  IF bignum_is_zero(rem)
                THEN pc' = "done" /\ out' = [err |-> FALSE, val |-> FALSE]
                     /\ prime_i' = prime_i
                ELSE pc' = "trial" /\ out' = out
                     /\ prime_i' = bignum_add(prime_i, <<2>>)
       ELSE pc' = "done" /\ out' = [err |-> FALSE, val |-> TRUE]
            /\ prime_i' = prime_i
    /\ UNCHANGED <<op, a, b, c, s, e, limit, work>>

NextPrime == PrimeStart \/ PrimeTrial

SpecPrime == InitPrime /\ [][NextPrime]_vars

\* n is a prime number
IsPrimeNat(n) ==
    /\ n >= 2
    /\ \A d \in 2..n : (d <= n \div d) => (n % d # 0)

\* C8: for canonical a, bignum_is_prime(a) is true iff value(a) is prime.
C8_IsPrime ==
    (pc = "done" /\ op = "is_prime" /\ Canonical(a) /\ Len(a) <= 3) =>
        (out.val <=> IsPrimeNat(value(a)))

---------------------------------------------------------------------------
(* Comparison, addition, multiplication of three operands *)

MaxLenArith == 2

ArithLimbs == {0, 1, 255}

InitArith ==
    /\ pc = "input"
    /\ op = "none"
    /\ a \in BigNums(ArithLimbs, MaxLenArith)
    /\ b \in BigNums(ArithLimbs, MaxLenArith)
    /\ c \in BigNums(ArithLimbs, MaxLenArith)
    /\ s = <<>>
    /\ e = 0
    /\ prime_i = zero_bn
    /\ limit = zero_bn
    /\ work = NoWork
    /\ out = NoOut

\* every comparison among a, b, c, and a against b with top zeros appended
Cmp ==
    /\ pc = "input"
    /\ pc' = "done"
    /\ op' = "cmp"
    /\ out' = [err |-> FALSE,
               ab |-> bignum_cmp(a, b), ba |-> bignum_cmp(b, a),
               aa |-> bignum_cmp(a, a), bc |-> bignum_cmp(b, c),
               ac |-> bignum_cmp(a, c),
               a0b |-> bignum_cmp(a \o <<0>>, b),
               ab0 |-> bignum_cmp(a, b \o <<0, 0>>)]
    /\ UNCHANGED <<a, b, c, s, e, prime_i, limit, work>>

Add ==
    /\ pc = "input"
    /\ pc' = "done"
    /\ op' = "add"
    /\ out' = [err |-> FALSE,
               ab |-> bignum_add(a, b), ba |-> bignum_add(b, a),
               ab_c |-> bignum_add(bignum_add(a, b), c),
               a_bc |-> bignum_add(a, bignum_add(b, c))]
    /\ UNCHANGED <<a, b, c, s, e, prime_i, limit, work>>

Mul ==
    /\ pc = "input"
    /\ pc' = "done"
    /\ op' = "mul"
    /\ out' = [err |-> FALSE,
               ab |-> bignum_mul(a, b), ba |-> bignum_mul(b, a)]
    /\ UNCHANGED <<a, b, c, s, e, prime_i, limit, work>>

\* a - b for every pair, whether or not a >= b, and the sum of the
\* difference and b
Sub ==
    /\ pc = "input"
    /\ pc' = "done"
    /\ op' = "sub"
    /\ out' = [err |-> FALSE,
               val |-> bignum_sub(a, b),
               borrow |-> sub_loop(a, b, 0, 0, <<>>).borrow,
               back |-> bignum_add(bignum_sub(a, b), b)]
    /\ UNCHANGED <<a, b, c, s, e, prime_i, limit, work>>

\* verify_add on a, b and an arbitrary third number c, on a, b and their
\* sum, and the calculator's check of a + b
VerifyAdd ==
    /\ pc = "input"
    /\ pc' = "done"
    /\ op' = "verify_add"
    /\ out' = [err |-> FALSE,
               val |-> bignum_verify_add(a, b, c),
               sum_ok |-> bignum_verify_add(a, b, bignum_add(a, b)),
               con |-> con_check(a, b)]
    /\ UNCHANGED <<a, b, c, s, e, prime_i, limit, work>>

NextArith == Cmp \/ Add \/ Mul \/ Sub \/ VerifyAdd

SpecArith == InitArith /\ [][NextArith]_vars

Sign(n) == IF n < 0 THEN -1 ELSE IF n > 0 THEN 1 ELSE 0

\* C9: bignum_cmp is a total order consistent with value, on canonical and
\* non-canonical vectors alike: the result is -1, 0 or 1, the sign of
\* value(a) - value(b); cmp(a,a) = 0; cmp(a,b) = -cmp(b,a); cmp(a,b) <= 0 and
\* cmp(b,c) <= 0 give cmp(a,c) <= 0; appended top zero limbs change nothing.
C9_CmpTotalOrder ==
    (pc = "done" /\ op = "cmp") =>
        /\ out.ab \in {-1, 0, 1}
        /\ out.ab = Sign(value(a) - value(b))
        /\ out.aa = 0
        /\ out.ab = -out.ba
        /\ (out.ab <= 0 /\ out.bc <= 0) => out.ac <= 0
        /\ out.a0b = out.ab
        /\ out.ab0 = out.ab

\* a shorter vector that is the greater, against one with a redundant top zero
C9_Witness ==
    /\ pc = "done" /\ op = "cmp"
    /\ Len(a) < Len(b)
    /\ b[Len(b)] = 0
    /\ out.ab = 1
    /\ out.bc = -1

\* C10: for canonical a, b, c the results of add and mul are the same limb
\* vectors in either operand order, and add is associative.
C10_AddCommAssoc ==
    (pc = "done" /\ Canonical(a) /\ Canonical(b) /\ Canonical(c)) =>
        /\ op = "add" => (out.ab = out.ba /\ out.ab_c = out.a_bc)
        /\ op = "mul" => out.ab = out.ba

\* an addition of operands of different lengths whose carry made a new limb
C10_Witness ==
    /\ pc = "done" /\ op = "add"
    /\ Canonical(a) /\ Canonical(b) /\ Canonical(c)
    /\ Len(a) < Len(b)
    /\ Len(out.ab) > Len(b)
    /\ Len(out.ab_c) > Len(out.ab) - 1
    /\ ~bignum_is_zero(c)

\* Moduli for comparing numbers too large to form: pairwise coprime, each
\* below 2^15, their product above LimbBase^6.
CrtModuli == {32749, 32719, 32717, 32713}

\* C11: for all a and b, of equal or different limb counts, canonical or
\* not, value(bignum_add(a,b)) = value(a) + value(b); the carry out of the
\* most significant limb is kept in an extra limb.
C11_AddValue ==
    (pc = "done" /\ op = "add") =>
        /\ Len(out.ab) <= (IF Len(a) >= Len(b) THEN Len(a) ELSE Len(b)) + 1
        /\ \A m \in CrtModuli :
              value_mod(out.ab, m) = (value_mod(a, m) + value_mod(b, m)) % m

\* operands of different lengths whose sum carried into a new limb
C11_Witness ==
    /\ pc = "done" /\ op = "add"
    /\ Len(a) # Len(b)
    /\ Len(out.ab) > Len(a) /\ Len(out.ab) > Len(b)
    /\ out.ab[Len(out.ab)] = 1

\* C12: for all a and b, value(bignum_mul(a,b)) = value(a) * value(b), and
\* when every limb of a or of b is zero the result is the canonical zero [0].
C12_MulValue ==
    (pc = "done" /\ op = "mul") =>
        /\ Len(out.ab) <= Len(a) + Len(b)
        /\ \A m \in CrtModuli :
              value_mod(out.ab, m) = (value_mod(a, m) * value_mod(b, m)) % m
        /\ (bignum_is_zero(a) \/ bignum_is_zero(b)) => out.ab = <<0>>

\* a product by a non-canonical zero [0,0], and by a two-limb number
C12_Witness ==
    /\ pc = "done" /\ op = "mul"
    /\ Len(b) = 2
    /\ \/ (b = <<0, 0>> /\ ~bignum_is_zero(a) /\ out.ab = <<0>>)
       \/ (Len(a) = 2 /\ Len(out.ab) = 4 /\ out.ab = out.ba)

\* C13: for canonical a >= b, value(bignum_sub(a,b)) = value(a) - value(b),
\* no borrow is left after the last limb, and add(sub(a,b), b) is a again.
C13_SubValue ==
    (pc = "done" /\ op = "sub" /\ Canonical(a) /\ Canonical(b)
       /\ bignum_cmp(a, b) >= 0) =>
        /\ value(out.val) = value(a) - value(b)
        /\ out.borrow = 0
        /\ out.back = a

\* a subtraction that borrowed across a limb and shortened the result
C13_Witness ==
    /\ pc = "done" /\ op = "sub"
    /\ Canonical(a) /\ Canonical(b) /\ bignum_cmp(a, b) > 0
    /\ Len(a) = 2 /\ a[1] < b[1]
    /\ Len(out.val) < Len(a)
    /\ out.back = a

\* LimbBase ^ Len(v): the modulus the limbs of v wrap at
WrapMod(v) == LimbBase ^ Len(v)

\* C14: with a < b, bignum_sub signals nothing and returns the normalized
\* vector of (value(a) - (value(b) mod M)) mod M, M = 2^(limb width * len(a)):
\* the limbs of b beyond len(a) and the borrow left over are ignored.
C14_SubWrapped ==
    (pc = "done" /\ op = "sub" /\ bignum_cmp(a, b) < 0) =>
        /\ ~out.err
        /\ Canonical(out.val)
        /\ value(out.val) = (value(a) - (value(b) % WrapMod(a))) % WrapMod(a)

\* b longer than a, a borrow left over
C14_Witness ==
    /\ pc = "done" /\ op = "sub"
    /\ Len(b) > Len(a) /\ b[Len(b)] # 0
    /\ bignum_cmp(a, b) < 0
    /\ out.borrow = 1
    /\ ~out.err

---------------------------------------------------------------------------
(* bignum_is_valid_decimal on arbitrary text *)

MaxTextLen == 3

\* ' ', '-', '/', '0', '1', '2', '9', ':' : digits, the characters on
\* either side of the digit range, and two the calculator's users may type
TextChars == {32, 45, 47, 48, 49, 50, 57, 58}

InitValid ==
    /\ pc = "input"
    /\ op = "none"
    /\ a = zero_bn
    /\ b = zero_bn
    /\ c = zero_bn
    /\ s \in UNION {[1..k -> TextChars] : k \in 0..MaxTextLen}
    /\ e = 0
    /\ prime_i = zero_bn
    /\ limit = zero_bn
    /\ work = NoWork
    /\ out = NoOut

IsValidDecimal ==
    /\ pc = "input"
    /\ pc' = "done"
    /\ op' = "is_valid_decimal"
    /\ out' = [err |-> FALSE, val |-> bignum_is_valid_decimal(s)]
    /\ UNCHANGED <<a, b, c, s, e, prime_i, limit, work>>

NextValid == IsValidDecimal

SpecValid == InitValid /\ [][NextValid]_vars

IsDigitCh(ch) == ch \in 48..57

\* C15: bignum_is_valid_decimal(s) is true iff s is non-empty, all of its
\* characters are ASCII digits, and it has no leading '0' unless it is "0";
\* "", "00", "01", "-1", "1 2" are rejected, "0" and "10" accepted.
C15_IsValidDecimal ==
    (pc = "done" /\ op = "is_valid_decimal") =>
        /\ out.val <=>
              /\ Len(s) >= 1
              /\ \A k \in 1..Len(s) : IsDigitCh(s[k])
              /\ (s[1] = 48 => Len(s) = 1)
        /\ s \in {<<>>, <<48, 48>>, <<48, 49>>, <<45, 49>>, <<49, 32, 50>>}
              => ~out.val
        /\ s \in {<<48>>, <<49, 48>>} => out.val

\* "1 2" has been rejected
C15_Witness ==
    /\ pc = "done" /\ op = "is_valid_decimal"
    /\ s = <<49, 32, 50>>
    /\ ~out.val

\* C16: bignum_verify_add(a,b,s) is true iff (digit_root(a) + digit_root(b))
\* mod 9 = digit_root(s) mod 9; it is true of every a, b and their sum
\* add(a,b), and the calculator's inline check never fails for add(a,b).
C16_VerifyAdd ==
    (pc = "done" /\ op = "verify_add") =>
        /\ out.val <=> ((bignum_digit_root(a) + bignum_digit_root(b)) % 9
                          = bignum_digit_root(c) % 9)
        /\ out.val <=> ((value_mod(a, 9) + value_mod(b, 9)) % 9
                          = value_mod(c, 9))
        /\ out.sum_ok
        /\ out.con.ok

\* the two roots sum past 9, the true sum passes and a wrong third number
\* has been refused
C16_Witness ==
    /\ pc = "done" /\ op = "verify_add"
    /\ out.con.ra + out.con.rb >= 9
    /\ out.con.rs # 0
    /\ out.sum_ok /\ out.con.ok
    /\ ~out.val

\* the number a digit string writes, modulo m
RECURSIVE dec_mod(_, _, _, _)
dec_mod(str, k, acc, m) ==
    IF k > Len(str) THEN acc
    ELSE dec_mod(str, k + 1, (acc * 10 + (str[k] - Ch0)) % m, m)

\* a holds what bignum_from_decimal (either version) returned for s
Parsed ==
    \/ (pc = "parsed" /\ op = "from_decimal")
    \/ (pc = "done" /\ op = "from_decimal_div")

\* C19: for every digit string s, leading zeros or not, bignum_from_decimal(s)
\* is the canonical BigNum of the number s writes; "" and "0" give [0].
C19_FromDecimal ==
    Parsed =>
        /\ Canonical(a)
        /\ 2 * Len(a) <= Len(s) + 2
        /\ \A m \in CrtModuli : value_mod(a, m) = dec_mod(s, 1, 0, m)
        /\ (s = <<>> \/ s = StrZero) => a = <<0>>

\* a string with a leading zero has been parsed into more than one limb
C19_Witness ==
    /\ pc = "parsed" /\ op = "from_decimal"
    /\ Len(s) >= 4
    /\ s[1] = Ch0
    /\ Len(a) = 2

---------------------------------------------------------------------------
(* bignum_isqrt, one Newton iteration per step *)

MaxLenSqrt == 3

SqrtLimbs == {0, 1, 8, 16, 255}

InitIsqrt ==
    /\ pc = "input"
    /\ op = "none"
    /\ a \in BigNums(SqrtLimbs, MaxLenSqrt)
    /\ b = zero_bn
    /\ c = zero_bn
    /\ s = <<>>
    /\ e = 0
    /\ prime_i = zero_bn
    /\ limit = zero_bn
    /\ work = NoWork
    /\ out = NoOut

\* the zero case and the initial approximation
IsqrtStart ==
    /\ pc = "input"
    /\ op' = "isqrt"
    /\ IF bignum_is_zero(a)
       THEN pc' = "done" /\ out' = ReturnedVal(zero_bn) /\ work' = work
       ELSE pc' = "newton" /\ out' = out /\ work' = [x |-> isqrt_x0(a)]
    /\ UNCHANGED <<a, b, c, s, e, prime_i, limit>>

\* one turn of while (true): the exception of bignum_divmod, the break, or
\* the next x
IsqrtStep ==
    /\ pc = "newton"
    /\ LET qr == bignum_divmod(a, work.x)
           x_new == normalize(halve(bignum_add(work.x, qr.q)))
       IN IF qr.err
          THEN pc' = "done" /\ out' = ThrownVal /\ work' = work
          ELSE IF bignum_cmp(x_new, work.x) >= 0
          THEN pc' = "done" /\ out' = ReturnedVal(work.x) /\ work' = work
          ELSE pc' = "newton" /\ out' = out /\ work' = [x |-> x_new]
    /\ UNCHANGED <<op, a, b, c, s, e, prime_i, limit>>

NextIsqrt == IsqrtStart \/ IsqrtStep

SpecIsqrt == InitIsqrt /\ [][NextIsqrt]_vars

\* The function is run to its return: a started call keeps executing.
\* This is WF_vars(NextIsqrt) written out.  IsqrtStart and IsqrtStep assign
\* every variable on every branch and each changes pc or work, so
\* <<NextIsqrt>>_vars is enabled exactly where pc # "done"; weak fairness is
\* then "infinitely often done, or infinitely often a step".
FairSpecIsqrt ==
    SpecIsqrt /\ ([]<>(pc = "done") \/ []<><<NextIsqrt>>_vars)

\* the divisor of every bignum_divmod of the loop is at least 1, and the call
\* never ends by an exception
IsqrtDivisorInv ==
    /\ (pc = "newton" /\ Canonical(a)) =>
          (~bignum_is_zero(work.x) /\ Canonical(work.x))
    /\ (pc = "done" /\ Canonical(a)) => ~out.err

\* x0 * x0 >= a; for a of at most three limbs, where the numbers can be formed
IsqrtStartsAbove ==
    (pc = "input" /\ pc' = "newton" /\ Canonical(a) /\ Len(a) <= 3) =>
        value(work'.x) * value(work'.x) >= value(a)

\* an accepted iterate is strictly below the one before
IsqrtDecreases ==
    (pc = "newton" /\ pc' = "newton" /\ Canonical(a)) =>
        (bignum_cmp(work'.x, work.x) < 0
           /\ (Len(a) <= 3 => value(work'.x) < value(work.x)))

\* C18: bignum_isqrt terminates for every canonical a: it starts from
\* x0 >= sqrt(a), every accepted iterate is strictly smaller than the one
\* before and at least 1, bignum_divmod is never given a zero divisor, and
\* the loop is left after finitely many steps.
C18_IsqrtTerminates ==
    /\ []IsqrtDivisorInv
    /\ [][IsqrtStartsAbove /\ IsqrtDecreases]_vars
    /\ <>(pc = "done")

\* a three-limb a whose root was returned after at least one accepted iterate
C18_Witness ==
    /\ pc = "done" /\ op = "isqrt"
    /\ Canonical(a) /\ Len(a) = 3
    /\ ~out.err
    /\ out.val # isqrt_x0(a)
    /\ bignum_cmp(out.val, isqrt_x0(a)) < 0

---------------------------------------------------------------------------
(* bignum_divmod, one quotient position per step *)

InitKnuth ==
    /\ pc = "input"
    /\ op = "none"
    /\ a \in BigNums(DivLimbs, MaxLenA)
    /\ b \in BigNums(DivLimbs, MaxLenB)
    /\ c = zero_bn
    /\ s = <<>>
    /\ e = 0
    /\ prime_i = zero_bn
    /\ limit = zero_bn
    /\ work = NoWork
    /\ out = NoOut

\* the three early exits, then normalization and the set-up of the loop
KnuthEnter ==
    /\ pc = "input"
    /\ op' = "divmod"
    /\ IF bignum_is_zero(b)
       THEN pc' = "done" /\ out' = Thrown /\ work' = work
       ELSE IF bignum_cmp(a, b) < 0
       THEN pc' = "done" /\ out' = Returned(zero_bn, a) /\ work' = work
       ELSE IF bignum_cmp(a, b) = 0
       THEN pc' = "done" /\ out' = Returned(one_bn, zero_bn) /\ work' = work
       ELSE LET u0 == normalize(a)
                v0 == normalize(b)
                n == Len(v0)
                m == Len(u0) - n
                shift == count_shift(v0[n], 0)
                u1 == IF shift > 0 THEN shl_u(u0, shift) ELSE u0
                v == IF shift > 0 THEN shl_v(v0, shift).v ELSE v0
            IN /\ pc' = "loop"
               /\ out' = out
               /\ work' = [u |-> pad_to(u1, n + m + 1), v |-> v,
                           q |-> [k \in 1..(m + 1) |-> 0],
                           j |-> m, n |-> n, shift |-> shift, qhat |-> 0,
                           prev |-> IF shift > 0 THEN shl_v(v0, shift).prev
                                    ELSE 0,
                           ms |-> <<>>]
    /\ UNCHANGED <<a, b, c, s, e, prime_i, limit>>

\* one pass of for (int j = m; j >= 0; --j)
KnuthStep ==
    /\ pc = "loop"
    /\ work.j >= 0
    /\ LET st == div_step(work.u, work.v, work.q, work.j)
       IN work' = [work EXCEPT !.u = st.u, !.q = st.q, !.j = work.j - 1,
                               !.qhat = st.qhat,
                               !.ms = mulsub_trace(work.u, work.v, st.qhat,
                                                   work.j, 0, 0, <<>>)]
    /\ UNCHANGED <<pc, op, a, b, c, s, e, prime_i, limit, out>>

\* after the loop: the remainder shifted back, both results normalized
KnuthExit ==
    /\ pc = "loop"
    /\ work.j < 0
    /\ pc' = "done"
    /\ out' = Returned(normalize(work.q),
                       normalize(div_rem(work.u, work.n, work.shift)))
    /\ UNCHANGED <<op, a, b, c, s, e, prime_i, limit, work>>

NextKnuth == KnuthEnter \/ KnuthStep \/ KnuthExit

SpecKnuth == InitKnuth /\ [][NextKnuth]_vars

\* the number in the working window u[j..j+n]
Window(u, j, n) == value(SubSeq(u, j + 1, j + n + 1))

\* what a step of the quotient loop at position j must do
KnuthStepRight ==
    LET j == work.j
        n == work.n
        win == Window(work.u, j, n)
        vv == value(work.v)
        digit == win \div vv
    IN /\ win < vv * LimbBase
       /\ work.u[j + n + 1] <= work.v[n]
       /\ work'.qhat \in {digit, digit + 1}
       /\ work'.qhat <= LimbMax
       /\ work'.q[j + 1] = digit
       /\ Window(work'.u, j, n) = win - digit * vv
       /\ Window(work'.u, j, n) < vv

\* C20: at every quotient position j of the Knuth loop, for canonical a > b:
\* the window u[j..j+n] is below v * 2^32 before the step (so u[j+n] <=
\* v[n-1]); after the refinement qhat is the true quotient digit or one more,
\* never less and never above 2^32-1, the u[j+n] = v[n-1] branch included;
\* after the step q[j] is the exact digit and the window remainder is below v.
C20_KnuthStep ==
    [][(pc = "loop" /\ work.j >= 0 /\ Canonical(a) /\ Canonical(b)
          /\ work.n <= 2) => KnuthStepRight]_vars

---------------------------------------------------------------------------
(* Sequences of operations on values that came from bignum_from_decimal *)

MaxLenChain == 3
MaxChainOps == 3

Str(digits) == [k \in 1..Len(digits) |-> DigitCh(digits[k])]

\* "0", "1", "00", "255", "256", "65535", "65536"
ChainStrs == {Str(<<0>>), Str(<<1>>), Str(<<0, 0>>), Str(<<2, 5, 5>>),
              Str(<<2, 5, 6>>), Str(<<6, 5, 5, 3, 5>>), Str(<<6, 5, 5, 3, 6>>)}

ChainResult(args, vals) == [err |-> FALSE, args |-> args, vals |-> vals]

ChainThrown(args) == [err |-> TRUE, args |-> args, vals |-> <<>>]

InitChain ==
    /\ pc = "chain"
    /\ op = "from_decimal"
    /\ \E s1 \in ChainStrs, s2 \in ChainStrs :
          /\ a = bignum_from_decimal(s1)
          /\ b = bignum_from_decimal(s2)
    /\ c = zero_bn
    /\ s = <<>>
    /\ e = 0
    /\ prime_i = zero_bn
    /\ limit = zero_bn
    /\ work = [ops |-> 0]
    /\ out = ChainResult(<<>>, <<a, b>>)

\* a returned value becomes an operand of later calls when it fits the
\* bound on operand length; it is recorded in out either way
ChainKeep(r) ==
    /\ work.ops < MaxChainOps
    /\ work' = [ops |-> work.ops + 1]
    /\ IF Len(r) <= MaxLenChain
       THEN \E dst \in {"a", "b"} :
               /\ a' = IF dst = "a" THEN r ELSE a
               /\ b' = IF dst = "b" THEN r ELSE b
       ELSE UNCHANGED <<a, b>>
    /\ UNCHANGED <<pc, c, s, e, prime_i, limit>>

ChainFromDecimal ==
    \E str \in ChainStrs :
        LET r == bignum_from_decimal(str)
        IN /\ op' = "from_decimal"
           /\ out' = ChainResult(<<>>, <<r>>)
           /\ ChainKeep(r)

ChainAdd ==
    LET r == bignum_add(a, b)
    IN /\ op' = "add"
       /\ out' = ChainResult(<<a, b>>, <<r>>)
       /\ ChainKeep(r)

ChainSub ==
    /\ bignum_cmp(a, b) >= 0
    /\ LET r == bignum_sub(a, b)
       IN /\ op' = "sub"
          /\ out' = ChainResult(<<a, b>>, <<r>>)
          /\ ChainKeep(r)

ChainMul ==
    LET r == bignum_mul(a, b)
    IN /\ op' = "mul"
       /\ out' = ChainResult(<<a, b>>, <<r>>)
       /\ ChainKeep(r)

ChainPow ==
    \E exp \in 1..3 :
        LET r == bignum_pow(a, exp)
        IN /\ op' = "pow"
           /\ out' = ChainResult(<<a>>, <<r.val>>)
           /\ ChainKeep(r.val)

ChainIsqrt ==
    LET r == bignum_isqrt(a)
    IN /\ op' = "isqrt"
       /\ IF r.err
          THEN /\ out' = ChainThrown(<<a>>)
               /\ work.ops < MaxChainOps
               /\ work' = [ops |-> work.ops + 1]
               /\ UNCHANGED <<pc, a, b, c, s, e, prime_i, limit>>
          ELSE /\ out' = ChainResult(<<a>>, <<r.val>>)
               /\ ChainKeep(r.val)

\* the quotient goes to one operand and the remainder to the other
ChainDivmod ==
    LET qr == bignum_divmod(a, b)
    IN /\ op' = "divmod"
       /\ work.ops < MaxChainOps
       /\ work' = [ops |-> work.ops + 1]
       /\ IF qr.err
          THEN /\ out' = ChainThrown(<<a, b>>)
               /\ UNCHANGED <<a, b>>
          ELSE /\ out' = ChainResult(<<a, b>>, <<qr.q, qr.r>>)
               /\ \/ a' = qr.q /\ b' = qr.r
                  \/ a' = qr.r /\ b' = qr.q
       /\ UNCHANGED <<pc, c, s, e, prime_i, limit>>

NextChain ==
    \/ ChainFromDecimal
    \/ ChainAdd
    \/ ChainSub
    \/ ChainMul
    \/ ChainPow
    \/ ChainIsqrt
    \/ ChainDivmod

SpecChain == InitChain /\ [][NextChain]_vars

\* C17: after any sequence of operations that starts from results of
\* bignum_from_decimal, every BigNum returned by from_decimal, add, sub (with
\* a >= b), mul, pow, isqrt and both components of divmod has at least one
\* limb and no most-significant zero limb unless it is exactly [0].
C17_CanonicalResults ==
    pc = "chain" =>
        /\ Canonical(a)
        /\ Canonical(b)
        /\ \A k \in 1..Len(out.vals) : Canonical(out.vals[k])

\* a division late in a sequence whose quotient buffer and remainder both
\* had zero limbs on top
C17_Witness ==
    /\ pc = "chain"
    /\ op = "divmod"
    /\ work.ops >= 2
    /\ ~out.err
    /\ Len(out.args[1]) = 3
    /\ Len(out.args[2]) = 2
    /\ Len(out.vals[1]) = 1
    /\ out.vals[1] # zero_bn
    /\ out.vals[2] = zero_bn

---------------------------------------------------------------------------
(* bignum_divmod: the shift before the quotient loop and the shift back *)

RECURSIVE Pow2(_)
Pow2(k) == IF k = 0 THEN 1 ELSE 2 * Pow2(k - 1)

\* the state in which the quotient loop is entered
KnuthAtLoopEntry == pc = "loop" /\ work.j = Len(work.q) - 1

\* what the left shift must have established
NormalizationRight ==
    LET n == work.n
        m == Len(normalize(a)) - n
    IN /\ work.shift \in 0..(LimbBits - 1)
       /\ work.prev = 0
       /\ work.v[n] >= TopBit
       /\ value(work.v) = value(b) * Pow2(work.shift)
       /\ value(work.u) = value(a) * Pow2(work.shift)
       /\ Len(work.u) = n + m + 1
       /\ work.u[n + m + 1] < work.v[n]

\* the right shift of the low n limbs undoes the left shift
UnshiftRight ==
    value(out.r) * Pow2(work.shift) = value(SubSeq(work.u, 1, work.n))

\* C21: in bignum_divmod the shift (0..31, chosen from the divisor's top
\* limb) preserves values: value(v) = value(b) * 2^shift with the top bit of
\* v[n-1] set and nothing shifted out of v, value(u) = value(a) * 2^shift
\* with u of exactly n+m+1 limbs and a top limb strictly below v[n-1]; and
\* the final right shift of the low n limbs returns exactly
\* value(a) mod value(b).
C21_Normalization ==
    (Len(a) <= 3) =>
        /\ KnuthAtLoopEntry => NormalizationRight
        /\ (pc = "done" /\ ~out.err) => value(out.r) = value(a) % value(b)

---------------------------------------------------------------------------
(* bignum_to_decimal: divide and conquer against the direct conversion *)

\* C22: for every canonical a the divide-and-conquer bignum_to_decimal
\* returns exactly the string of the direct conversion (the decimal string
\* times 2^32 plus each limb, most significant limb first), and the result
\* has no leading zero unless it is "0".
C22_DcEqualsDirect ==
    (StrDone /\ Canonical(a)) =>
        /\ out.str = to_decimal_direct(a)
        /\ (out.str[1] = Ch0 => out.str = StrZero)

---------------------------------------------------------------------------
(* bignum_to_decimal, one recursive call of to_decimal_dc per step.  Every
   caller has its own frame: the pending calls, the strings returned so far
   and its Pow10Cache, which is a local variable of bignum_to_decimal. *)

DeepDigits == 26

MaxDcCalls == 2

DcThreads == {1, 2}

\* strings of DeepDigits digits: more than twice DC_THRESHOLD_LIMBS limbs,
\* so that hi and lo are split again
DeepStrs ==
    {[k \in 1..DeepDigits |-> DigitCh(d)] : d \in {1, 9}}
    \cup {[k \in 1..DeepDigits |-> DigitCh(IF k % 2 = 1 THEN 9 ELSE 0)],
          [k \in 1..DeepDigits |-> DigitCh(IF k = 1 THEN 1 ELSE 0)],
          [k \in 1..DeepDigits |-> DigitCh(IF k <= 13 THEN 9 ELSE 0)]}

MidDigits == 15

\* strings of MidDigits digits that end in seven 1s, the digits before
\* them 1 or 9: six or seven limbs, split once
MidStrs ==
    {[k \in 1..MidDigits |-> IF k <= MidDigits - 7 THEN f[k] ELSE DigitCh(1)] :
        f \in [1..(MidDigits - 7) -> {DigitCh(1), DigitCh(9)}]}

\* the argument of a caller
DcInput(t) == IF t = 1 THEN a ELSE b

\* a pending to_decimal_dc(v, cache), and the rest of a call that has made
\* its two recursive calls (pad lo_str to k characters and concatenate)
DcPending(v) == [t |-> "call", v |-> v, k |-> 0]

DcRest(k) == [t |-> "rest", v |-> <<>>, k |-> k]

NoSplit == [v |-> <<>>, k |-> 0, hi |-> <<>>, lo |-> <<>>]

NoJoin == [k |-> 0, lo_len |-> 0]

DcIdle ==
    [pc |-> "idle", stack |-> <<>>, strs |-> <<>>, cache |-> EmptyCache,
     made |-> <<>>, split |-> NoSplit, join |-> NoJoin, calls |-> 0,
     res |-> <<>>]

InitDcVars ==
    /\ pc = "dc"
    /\ op = "to_decimal"
    /\ c = zero_bn
    /\ e = 0
    /\ prime_i = zero_bn
    /\ limit = zero_bn
    /\ work = [t \in DcThreads |-> DcIdle]
    /\ out = NoOut

\* one caller, arguments on both sides of the threshold
InitDc ==
    /\ s \in LongStrs \cup MidStrs \cup DeepStrs
               \cup {StrZero, Str(<<2, 5, 6>>)}
    /\ a = bignum_from_decimal(s)
    /\ b = zero_bn
    /\ InitDcVars

\* two callers at once, each with an argument that is split more than once
InitDcPar ==
    /\ s = <<>>
    /\ \E s1 \in DeepStrs, s2 \in DeepStrs :
          /\ a = bignum_from_decimal(s1)
          /\ b = bignum_from_decimal(s2)
    /\ InitDcVars

\* bignum_to_decimal is entered: "0" at once, or a fresh cache and the
\* first call of to_decimal_dc
DcCall(t) ==
    /\ work[t].pc \in {"idle", "done"}
    /\ work[t].calls < MaxDcCalls
    /\ work' = [work EXCEPT ![t] =
          IF bignum_is_zero(DcInput(t))
          THEN [DcIdle EXCEPT !.pc = "done", !.res = StrZero,
                              !.calls = work[t].calls + 1]
          ELSE [DcIdle EXCEPT !.pc = "dc",
                              !.stack = <<DcPending(DcInput(t))>>,
                              !.calls = work[t].calls + 1]]
    /\ UNCHANGED <<pc, op, a, b, c, s, e, prime_i, limit, out>>

\* to_decimal_dc at or below the threshold
DcBase(t) ==
    /\ work[t].pc = "dc"
    /\ work[t].stack # <<>>
    /\ LET top == Head(work[t].stack)
       IN /\ top.t = "call"
          /\ Len(top.v) <= DC_THRESHOLD_LIMBS
          /\ work' = [work EXCEPT ![t].stack = Tail(@),
                         ![t].strs = <<to_decimal_direct(top.v)>> \o @]
    /\ UNCHANGED <<pc, op, a, b, c, s, e, prime_i, limit, out>>

\* to_decimal_dc above the threshold, up to its two recursive calls
DcSplit(t) ==
    /\ work[t].pc = "dc"
    /\ work[t].stack # <<>>
    /\ LET top == Head(work[t].stack)
           k == decimal_digits_estimate(top.v) \div 2
           mid == bignum_pow10_cached(k, work[t].cache)
           qr == bignum_divmod(top.v, mid.val)
       IN /\ top.t = "call"
          /\ Len(top.v) > DC_THRESHOLD_LIMBS
          /\ work' = [work EXCEPT
                ![t].stack = <<DcPending(qr.q), DcPending(qr.r), DcRest(k)>>
                                \o Tail(@),
                ![t].cache = mid.cache,
                ![t].made = @ \o mid.made,
                ![t].split = [v |-> top.v, k |-> k, hi |-> qr.q,
                              lo |-> qr.r]]
    /\ UNCHANGED <<pc, op, a, b, c, s, e, prime_i, limit, out>>

\* both recursive calls have returned: pad lo_str and concatenate
DcJoin(t) ==
    /\ work[t].pc = "dc"
    /\ work[t].stack # <<>>
    /\ LET top == Head(work[t].stack)
           lo_str == work[t].strs[1]
           hi_str == work[t].strs[2]
       IN /\ top.t = "rest"
          /\ work' = [work EXCEPT ![t].stack = Tail(@),
                ![t].strs = <<hi_str \o pad_zeros(lo_str, top.k)>>
                               \o SubSeq(@, 3, Len(@)),
                ![t].join = [k |-> top.k, lo_len |-> Len(lo_str)]]
    /\ UNCHANGED <<pc, op, a, b, c, s, e, prime_i, limit, out>>

\* the outermost to_decimal_dc has returned; the cache goes out of scope
DcReturn(t) ==
    /\ work[t].pc = "dc"
    /\ work[t].stack = <<>>
    /\ work' = [work EXCEPT ![t].pc = "done", ![t].res = work[t].strs[1],
                            ![t].strs = <<>>, ![t].cache = EmptyCache]
    /\ UNCHANGED <<pc, op, a, b, c, s, e, prime_i, limit, out>>

DcStep(t) == DcCall(t) \/ DcBase(t) \/ DcSplit(t) \/ DcJoin(t) \/ DcReturn(t)

NextDc == DcStep(1)

SpecDc == InitDc /\ [][NextDc]_vars

NextDcPar == \E t \in DcThreads : DcStep(t)

SpecDcPar == InitDcPar /\ [][NextDcPar]_vars

\* what the last split of a caller must have done
DcSplitRight(t) ==
    LET sp == work[t].split
    IN sp.k > 0 =>
          /\ sp.k = decimal_digits_estimate(sp.v) \div 2
          /\ ~bignum_is_zero(sp.hi)
          /\ Len(sp.hi) < Len(sp.v)
          /\ Len(sp.lo) < Len(sp.v)

\* lo_str as the recursive call returned it, before the padding
DcJoinRight(t) == work[t].join.k > 0 => work[t].join.lo_len <= work[t].join.k

\* C23: in to_decimal_dc, for every canonical a of more than
\* DC_THRESHOLD_LIMBS limbs and k = decimal_digits_estimate(a) / 2:
\* hi = a div 10^k is not zero, lo = a mod 10^k renders to at most k
\* characters (so that padding makes it exactly k), and hi and lo both have
\* fewer limbs than a.
C23_DcSplit == DcSplitRight(1) /\ DcJoinRight(1)

---------------------------------------------------------------------------
(* The power-of-ten table of a bignum_to_decimal call *)

RECURSIVE Pow10Mod(_, _)
Pow10Mod(k, m) == IF k = 0 THEN 1 % m ELSE (10 * Pow10Mod(k - 1, m)) % m

\* v is the canonical BigNum of 10^k (k <= 16: 10^k is below the product of
\* the moduli and fits seven limbs)
IsPow10(v, k) ==
    /\ k <= 16
    /\ Canonical(v)
    /\ Len(v) <= 7
    /\ \A m \in CrtModuli : value_mod(v, m) = Pow10Mod(k, m)

\* the table of a running call: right entries, each computed once
DcCacheRight(t) ==
    LET f == work[t]
    IN f.pc = "dc" =>
          /\ \A k \in DOMAIN f.cache : IsPow10(f.cache[k], k)
          /\ \A i, j \in 1..Len(f.made) : f.made[i] = f.made[j] => i = j
          /\ DOMAIN f.cache = {f.made[i] : i \in 1..Len(f.made)}

\* a step of caller t: a new call starts from the empty table; within a
\* call an entry stays what it is; the other callers' frames are untouched
DcCacheStep(t) ==
    /\ work'[t].calls > work[t].calls =>
          /\ work'[t].cache = EmptyCache
          /\ work'[t].made = <<>>
    /\ (work[t].pc = "dc" /\ work'[t].pc = "dc") =>
          \A k \in DOMAIN work[t].cache :
              /\ k \in DOMAIN work'[t].cache
              /\ work'[t].cache[k] = work[t].cache[k]
    /\ work'[t] # work[t] =>
          \A u \in DcThreads \ {t} : work'[u] = work[u]

\* C24: within one bignum_to_decimal call every entry of the power-of-ten
\* table satisfies cache[k] = 10^k, every exponent is multiplied out at most
\* once and later requests get the stored entry unchanged; the table is
\* empty at the start of each top-level call, and nothing of it is visible
\* to a later or a concurrent call.
C24_Pow10Cache ==
    /\ [](\A t \in DcThreads : DcCacheRight(t))
    /\ [][\A t \in DcThreads : DcCacheStep(t)]_vars

\* caller 1 in its second call has been served an entry computed by an
\* earlier request of the same call, while caller 2 is in a call of its own
\* with a different table
C24_Witness ==
    /\ pc = "dc"
    /\ work[1].pc = "dc"
    /\ work[1].calls = 2
    /\ \E p \in 3..Len(work[1].made) :
          /\ work[1].made[p - 1] # work[1].made[p] \div 2
          /\ work[1].made[p] \div 2 \in DOMAIN work[1].cache
    /\ work[2].pc = "dc"
    /\ work[2].cache # EmptyCache
    /\ DOMAIN work[2].cache # DOMAIN work[1].cache

---------------------------------------------------------------------------
(* bignum_is_prime: the trial loop *)

\* the floor of the square root of n (n below 1000 * 1000)
IsqrtNat(n) == CHOOSE r \in 0..1000 : r * r <= n /\ n < (r + 1) * (r + 1)

\* the loop is running or has been left, on an odd a >= 5
PrimeInLoop ==
    /\ pc \in {"trial", "done"}
    /\ op = "is_prime"
    /\ Canonical(a)
    /\ value(a) >= 5
    /\ value(a) % 2 = 1

\* the parts of the claim that do not depend on what bignum_divmod and
\* bignum_isqrt return: i is canonical, never zero, odd, and no call fails
PrimeDivisorRight ==
    /\ Canonical(prime_i)
    /\ ~bignum_is_zero(prime_i)
    /\ value(prime_i) >= 3
    /\ value(prime_i) % 2 = 1
    /\ ~out.err

\* C25: for odd canonical a >= 5 the trial divisor i of bignum_is_prime
\* takes exactly the odd values 3, 5, 7, ... in increasing order while
\* i <= isqrt(a) and stops at the first exact divisor; every bignum_divmod
\* call in the loop has a non-zero divisor and no failure is raised.
C25_PrimeLoop ==
    PrimeInLoop =>
        /\ PrimeDivisorRight
        /\ limit = nat_limbs(IsqrtNat(value(a)))
        /\ value(prime_i) <= IsqrtNat(value(a)) + 2
        /\ \A d \in 3..(value(prime_i) - 1) :
              d % 2 = 1 => value(a) % d # 0
        /\ (pc = "done" /\ ~out.val /\ value(a) % 2 = 1) =>
              value(a) % value(prime_i) = 0

---------------------------------------------------------------------------
(* The wide intermediates of the limb loops *)

\* the sums av + bv + carry of bignum_add, as numbers, in the order the
\* loop forms them
RECURSIVE add_trace(_, _, _, _, _, _)
add_trace(x, y, n, i, carry, trace) ==
    IF i >= n THEN trace
    ELSE LET raw == Limb(x, i) + Limb(y, i) + carry
         IN add_trace(x, y, n, i + 1, U64(raw) \div LimbBase,
                      Append(trace, raw))

\* the inner loop of bignum_mul with the numbers it forms: "cur" for
\* a[i] * b[j] + result[i + j] + carry, "top" for result[i + nb] + carry
RECURSIVE mul_inner_trace(_, _, _, _, _, _, _)
mul_inner_trace(x, y, i, j, carry, result, trace) ==
    IF j >= Len(y)
    THEN [result |-> [result EXCEPT ![i + Len(y) + 1] = U32(@ + U32(carry))],
          trace |-> Append(trace, [kind |-> "top",
                                   raw |-> result[i + Len(y) + 1] + U32(carry)])]
    ELSE LET raw == x[i + 1] * y[j + 1] + result[i + j + 1] + carry
             cur == U64(raw)
         IN mul_inner_trace(x, y, i, j + 1, cur \div LimbBase,
                            [result EXCEPT ![i + j + 1] = U32(cur)],
                            Append(trace, [kind |-> "cur", raw |-> raw]))

RECURSIVE mul_outer_trace(_, _, _, _, _)
mul_outer_trace(x, y, i, result, trace) ==
    IF i >= Len(x) THEN [result |-> result, trace |-> trace]
    ELSE LET row == mul_inner_trace(x, y, i, 0, 0, result, trace)
         IN mul_outer_trace(x, y, i + 1, row.result, row.trace)

bignum_mul_trace(x, y) ==
    IF bignum_is_zero(x) \/ bignum_is_zero(y)
    THEN [result |-> zero_bn, trace |-> <<>>]
    ELSE LET r == mul_outer_trace(x, y, 0,
                                  [k \in 1..(Len(x) + Len(y)) |-> 0], <<>>)
         IN [result |-> normalize(r.result), trace |-> r.trace]

InitLimb == InitKnuth

LimbAdd ==
    /\ pc = "input"
    /\ pc' = "done"
    /\ op' = "add"
    /\ LET n == IF Len(a) >= Len(b) THEN Len(a) ELSE Len(b)
       IN out' = [err |-> FALSE, val |-> bignum_add(a, b),
                  trace |-> add_trace(a, b, n, 0, 0, <<>>)]
    /\ UNCHANGED <<a, b, c, s, e, prime_i, limit, work>>

LimbMul ==
    /\ pc = "input"
    /\ pc' = "done"
    /\ op' = "mul"
    /\ LET r == bignum_mul_trace(a, b)
       IN out' = [err |-> FALSE, val |-> bignum_mul(a, b),
                  traced |-> r.result, trace |-> r.trace]
    /\ UNCHANGED <<a, b, c, s, e, prime_i, limit, work>>

NextLimb == LimbAdd \/ LimbMul \/ KnuthEnter \/ KnuthStep \/ KnuthExit

SpecLimb == InitLimb /\ [][NextLimb]_vars

\* x as a uint64_t is x; x as an int64_t is x
FitsU64(x) == x >= 0 /\ U64(x) = x

FitsS64(x) == -(WideMod \div 2) <= x /\ x < WideMod \div 2

\* C26: no intermediate of the limb arithmetic wraps.  In bignum_mul the
\* accumulator a[i]*b[j] + result[i+j] + carry fits 64 bits and
\* result[i+nb] += carry does not overflow 32 bits; in bignum_add the carry
\* is 0 or 1; in the multiply-subtract of bignum_divmod qhat * v[i] and the
\* signed borrow fit 64 bits whenever qhat <= 2^32 - 1.
C26_NoWrap ==
    /\ (pc = "done" /\ op = "mul") =>
          /\ out.traced = out.val
          /\ \A k \in 1..Len(out.trace) :
                IF out.trace[k].kind = "cur"
                THEN FitsU64(out.trace[k].raw)
                ELSE out.trace[k].raw <= LimbMax
    /\ (pc = "done" /\ op = "add") =>
          \A k \in 1..Len(out.trace) :
              /\ FitsU64(out.trace[k])
              /\ out.trace[k] \div LimbBase \in {0, 1}
    /\ (pc = "loop" /\ work.qhat <= LimbMax) =>
          \A k \in 1..Len(work.ms) :
              /\ FitsU64(work.ms[k].p)
              /\ FitsS64(work.ms[k].t)
              /\ FitsS64(work.ms[k].borrow)

\* a multiplication whose accumulator has come within 2^32 of 2^64 (its
\* carry out was 2^32 - 1) and whose write to result[i + nb] stored 2^32 - 1
C26_Witness ==
    /\ pc = "done"
    /\ op = "mul"
    /\ \E k \in 1..Len(out.trace) :
          /\ out.trace[k].kind = "cur"
          /\ out.trace[k].raw >= WideMod - LimbBase
    /\ \E k \in 1..Len(out.trace) :
          out.trace[k].kind = "top" /\ out.trace[k].raw = LimbMax

---------------------------------------------------------------------------
(* bignum_is_prime as one function *)

RECURSIVE prime_loop(_, _, _)
prime_loop(v, i, lim) ==
    IF bignum_cmp(i, lim) <= 0
    THEN IF bignum_is_zero(bignum_divmod(v, i).r) THEN FALSE
         ELSE prime_loop(v, bignum_add(i, <<2>>), lim)
    ELSE TRUE

bignum_is_prime(v) ==
    LET dec == bignum_to_decimal(v)
    IN IF dec = <<DigitCh(0)>> \/ dec = <<DigitCh(1)>> THEN FALSE
       ELSE IF dec = <<DigitCh(2)>> \/ dec = <<DigitCh(3)>> THEN TRUE
       ELSE IF v[1] % 2 = 0 THEN FALSE
       ELSE prime_loop(v, bignum_from_decimal(<<DigitCh(3)>>),
                       bignum_isqrt(v).val)

---------------------------------------------------------------------------
(* The front end: AppState, the handlers of the UI thread, the worker
   threads that run do_execute and the generator.  One step of a thread is
   one stretch of code under st.mtx together with the thread-local
   computation before it.  Left out: the spinner thread (it touches
   spinner_idx and spinner_last only), the file-name and size fields, the
   renderer.  Times are kept as "na", "cached" or "ms". *)

MaxText == 3

MaxClicks == 2

MaxLoads == 1

MaxEdits == 1

ChSpace == 32

ChNewline == 10

WrapWidth == 80

\* what a key can put into an operand field
KeyChars == {Ch0, ChSpace}

\* what load_from_file can return: the first non-blank line of the file,
\* which has passed bignum_is_valid_decimal
FileTexts == {Str(<<0>>), Str(<<7, 7>>)}

\* what the generator can write: numbers of one byte with the top bit set
GenTexts == {Str(<<2, 0, 5>>), Str(<<2, 5, 5>>)}

\* for (char c : s) if (c >= '0' && c <= '9') r += c;
digits_only(str) == SelectSeq(str, LAMBDA ch : ch >= Ch0 /\ ch <= Ch9)

\* a line break after every WrapWidth characters
RECURSIVE wrap_number(_)
wrap_number(str) ==
    IF Len(str) <= WrapWidth THEN str
    ELSE SubSeq(str, 1, WrapWidth) \o <<ChNewline>>
         \o wrap_number(SubSeq(str, WrapWidth + 1, Len(str)))

\* the text of an Input after one character, Backspace or Delete event
EditResults(text) ==
    {text}
    \cup {SubSeq(text, 1, p) \o <<ch>> \o SubSeq(text, p + 1, Len(text)) :
             p \in (IF Len(text) < MaxText THEN 0..Len(text) ELSE {}),
             ch \in KeyChars}
    \cup {SubSeq(text, 1, p - 1) \o SubSeq(text, p + 1, Len(text)) :
             p \in 1..Len(text)}

NoMsg == <<>>

Oshibka(detail) == <<"Oshibka", detail>>

NoCon == [ra |-> 0, rb |-> 0, rs |-> 0, ok |-> FALSE]

\* AppState as its member initializers leave it
StInit ==
    [input_a |-> <<>>, input_b |-> <<>>,
     result_text |-> <<>>, status_msg |-> NoMsg,
     result_stale |-> FALSE, is_working |-> FALSE,
     show_con |-> FALSE, con |-> NoCon,
     t_parse_a |-> "na", t_parse_b |-> "na", t_op |-> "na",
     t_to_dec |-> "na",
     cached_bn_a |-> <<>>, cached_bn_b |-> <<>>,
     cache_a_valid |-> FALSE, cache_b_valid |-> FALSE]

\* a thread that has not been started, with the locals of do_execute
NoThread ==
    [pc |-> "none", job |-> "none", kind |-> "none",
     input_a |-> <<>>, input_b |-> <<>>, sa |-> <<>>, sb |-> <<>>,
     selected_op |-> 0, target_ab |-> 0, exp_val |-> 0,
     cache_a_valid |-> FALSE, cache_b_valid |-> FALSE,
     bn_a |-> <<>>, bn_b |-> <<>>, hit_a |-> FALSE, hit_b |-> FALSE,
     res |-> <<>>, rem |-> <<>>,
     parsed |-> <<>>,
     text |-> <<>>, show_con |-> FALSE, con |-> NoCon,
     t_op |-> "na", t_to_dec |-> "na",
     clears |-> 0, exit |-> "none"]

\* the operation, target and exponent a snapshot can find selected
OpChoices ==
    {[selected_op |-> o, target_ab |-> 0, exp_val |-> 0] : o \in {0, 1, 2, 5}}
    \cup {[selected_op |-> 3, target_ab |-> g, exp_val |-> x] :
             g \in {0, 1}, x \in {0, 2}}
    \cup {[selected_op |-> 4, target_ab |-> g, exp_val |-> 0] : g \in {0, 1}}

\* a thread that has returned: its locals are gone, what is kept is how often
\* it cleared is_working and by which return
Ended(th, exit) ==
    [NoThread EXCEPT !.pc = "done", !.job = th.job,
                     !.clears = th.clears + 1, !.exit = exit]

UiIdle == [pc |-> "idle", field |-> "none"]

InitUiWith(clicks, loads, edits) ==
    /\ pc = "ui"
    /\ op = "none"
    /\ a = zero_bn
    /\ b = zero_bn
    /\ c = zero_bn
    /\ s = <<>>
    /\ e = 0
    /\ prime_i = zero_bn
    /\ limit = zero_bn
    /\ out = NoOut
    /\ work = [st |-> StInit, ui |-> UiIdle,
               th |-> [t \in 1..clicks |-> NoThread],
               clicks |-> 0, loads |-> 0, edits |-> 0,
               lim |-> [clicks |-> clicks, loads |-> loads, edits |-> edits]]

InitUi == InitUiWith(MaxClicks, MaxLoads, MaxEdits)

UiRest == UNCHANGED <<pc, op, a, b, c, s, e, prime_i, limit, out>>

\* the test of is_working left out
NeverBusy(st) == FALSE

\* if (st.is_working) return;
Busy(st) == st.is_working

\* mark_stale on an operand field: the event is seen before the Input
\* component, which changes the text afterwards and outside the mutex
KeyMark(x) ==
    /\ work.ui.pc = "idle"
    /\ work.edits < work.lim.edits
    /\ work' = [work EXCEPT
          !.st = IF x = "a"
                 THEN [@ EXCEPT !.result_stale = TRUE, !.cache_a_valid = FALSE]
                 ELSE [@ EXCEPT !.result_stale = TRUE, !.cache_b_valid = FALSE],
          !.ui = [pc |-> "key", field |-> x],
          !.edits = @ + 1]
    /\ UiRest

\* the Input component handles the event
KeyEdit ==
    /\ work.ui.pc = "key"
    /\ \E new \in EditResults(IF work.ui.field = "a" THEN work.st.input_a
                              ELSE work.st.input_b) :
          work' = [work EXCEPT
             !.st = IF work.ui.field = "a" THEN [@ EXCEPT !.input_a = new]
                    ELSE [@ EXCEPT !.input_b = new],
             !.ui = UiIdle]
    /\ UiRest

\* btn_restore_a / btn_restore_b.  No thread can change is_working to true
\* between the two locked stretches (only the UI thread does), so the
\* handler is one step.
BtnLoad(x) ==
    /\ work.ui.pc = "idle"
    /\ work.loads < work.lim.loads
    /\ IF Busy(work.st)
       THEN work' = [work EXCEPT !.loads = @ + 1]
       ELSE \/ \E content \in FileTexts :
                  work' = [work EXCEPT
                     !.loads = @ + 1,
                     !.st = IF x = "a"
                            THEN [@ EXCEPT !.input_a = wrap_number(content),
                                           !.cache_a_valid = FALSE,
                                           !.status_msg = <<"A zagruzheno">>,
                                           !.result_stale = TRUE]
                            ELSE [@ EXCEPT !.input_b = wrap_number(content),
                                           !.cache_b_valid = FALSE,
                                           !.status_msg = <<"B zagruzheno">>,
                                           !.result_stale = TRUE]]
            \/ work' = [work EXCEPT
                  !.loads = @ + 1,
                  !.st = [@ EXCEPT !.status_msg = Oshibka("load_from_file")]]
    /\ UiRest

\* start_generate: the test and the set of is_working in one locked stretch,
\* then the thread is started
BtnGenerate(kind) ==
    /\ work.ui.pc = "idle"
    /\ work.clicks < work.lim.clicks
    /\ IF Busy(work.st)
       THEN work' = [work EXCEPT !.clicks = @ + 1]
       ELSE work' = [work EXCEPT
               !.clicks = @ + 1,
               !.st = [@ EXCEPT !.is_working = TRUE,
                                !.status_msg = <<"Vypolnyaetsya">>],
               !.th = [@ EXCEPT ![work.clicks + 1] =
                          [NoThread EXCEPT !.pc = "gen", !.job = "gen",
                                           !.kind = kind]]]
    /\ UiRest

\* btn_execute
BtnExecute ==
    /\ work.ui.pc = "idle"
    /\ work.clicks < work.lim.clicks
    /\ IF Busy(work.st)
       THEN work' = [work EXCEPT !.clicks = @ + 1]
       ELSE work' = [work EXCEPT
               !.clicks = @ + 1,
               !.st = [@ EXCEPT !.is_working = TRUE,
                                !.status_msg = <<"Vypolnyaetsya">>],
               !.th = [@ EXCEPT ![work.clicks + 1] =
                          [NoThread EXCEPT !.pc = "snap", !.job = "exec"]]]
    /\ UiRest

\* the generator thread: generate_and_save, load_from_file twice, and the
\* locked stretch that installs the numbers, or the catch clause
GenWrite(t) ==
    /\ work.th[t].pc = "gen"
    /\ \/ \E la \in GenTexts, lb \in GenTexts :
             LET kind == work.th[t].kind
                 st1 == IF kind \in {"A", "AB"}
                        THEN [work.st EXCEPT !.input_a = wrap_number(la),
                                             !.cache_a_valid = FALSE]
                        ELSE work.st
                 st2 == IF kind \in {"B", "AB"}
                        THEN [st1 EXCEPT !.input_b = wrap_number(lb),
                                         !.cache_b_valid = FALSE]
                        ELSE st1
             IN work' = [work EXCEPT
                   !.st = [st2 EXCEPT !.result_stale = TRUE,
                                      !.status_msg = <<"sgenerirovano", kind>>],
                   !.th[t].pc = "gen_end"]
       \/ work' = [work EXCEPT
             !.st = [@ EXCEPT !.status_msg = Oshibka("generatsii")],
             !.th[t].pc = "gen_end"]
    /\ UiRest

\* { lock; st.is_working = false; }
GenDone(t) ==
    /\ work.th[t].pc = "gen_end"
    /\ work' = [work EXCEPT !.st.is_working = FALSE,
                            !.th[t] = Ended(@, "gen")]
    /\ UiRest

\* do_execute, first locked stretch: the copy of the fields, and the reset
\* of show_con and of the times
ExecSnapshot(t) ==
    /\ work.th[t].pc = "snap"
    /\ \E ch \in OpChoices :
          work' = [work EXCEPT
             !.st = [@ EXCEPT !.show_con = FALSE, !.t_parse_a = "na",
                              !.t_parse_b = "na", !.t_op = "na",
                              !.t_to_dec = "na"],
             !.th[t] = [@ EXCEPT
                !.pc = "check",
                !.input_a = work.st.input_a,
                !.input_b = work.st.input_b,
                !.sa = digits_only(work.st.input_a),
                !.sb = digits_only(work.st.input_b),
                !.selected_op = ch.selected_op,
                !.target_ab = ch.target_ab,
                !.exp_val = ch.exp_val,
                !.cache_a_valid = work.st.cache_a_valid,
                !.cache_b_valid = work.st.cache_b_valid]]
    /\ UiRest

\* an error return that leaves is_working set
ExecFailKeep(t, detail, exit) ==
    [work EXCEPT !.st = [@ EXCEPT !.status_msg = Oshibka(detail)],
                 !.th[t] = Ended(@, exit)]

\* an error return of do_execute: status_msg and is_working, nothing else
ExecFail(t, detail, exit) ==
    [work EXCEPT !.st = [@ EXCEPT !.status_msg = Oshibka(detail),
                                  !.is_working = FALSE],
                 !.th[t] = Ended(@, exit)]

\* which operands are validated, the four validation returns, the exponent
ExecCheck(t) ==
    /\ work.th[t].pc = "check"
    /\ LET th == work.th[t]
           should_check_a_valid ==
               IF th.selected_op \in {3, 4} THEN th.target_ab = 0 ELSE TRUE
           should_check_b_valid ==
               IF th.selected_op \in {3, 4} THEN th.target_ab = 1 ELSE TRUE
       IN work' =
            IF should_check_a_valid /\ th.sa = <<>>
            THEN ExecFail(t, "chislo A pustoe", "empty")
            ELSE IF should_check_b_valid /\ th.sb = <<>>
            THEN ExecFail(t, "chislo B pustoe", "empty")
            ELSE IF should_check_a_valid /\ ~bignum_is_valid_decimal(th.sa)
            THEN ExecFail(t, "chislo A nedopustimo", "invalid")
            ELSE IF should_check_b_valid /\ ~bignum_is_valid_decimal(th.sb)
            THEN ExecFail(t, "chislo B nedopustimo", "invalid")
            ELSE IF th.selected_op = 3 /\ (th.exp_val < 1 \/ th.exp_val > 3)
            THEN ExecFail(t, "stepen ot 1 do 3", "exponent")
            ELSE [work EXCEPT !.th[t].pc = "parse_a"]
    /\ UiRest

\* if (!sa.empty()) { if (cache_a_valid) ... else ... }
ExecParseA(t) ==
    /\ work.th[t].pc = "parse_a"
    /\ LET th == work.th[t]
           bn == bignum_from_decimal(th.sa)
       IN work' =
            IF th.sa = <<>>
            THEN [work EXCEPT !.th[t].pc = "parse_b"]
            ELSE IF th.cache_a_valid
            THEN [work EXCEPT
                    !.st.t_parse_a = "cached",
                    !.th[t] = [@ EXCEPT !.pc = "parse_b",
                                        !.bn_a = work.st.cached_bn_a,
                                        !.hit_a = TRUE]]
            ELSE [work EXCEPT
                    !.st = [@ EXCEPT !.t_parse_a = "ms",
                                     !.cached_bn_a = bn,
                                     !.cache_a_valid = TRUE],
                    !.th[t] = [@ EXCEPT !.pc = "parse_b", !.bn_a = bn,
                                        !.parsed = Append(@, th.sa)]]
    /\ UiRest

\* if (!sb.empty()) { if (cache_b_valid) ... else ... }
ExecParseB(t) ==
    /\ work.th[t].pc = "parse_b"
    /\ LET th == work.th[t]
           bn == bignum_from_decimal(th.sb)
       IN work' =
            IF th.sb = <<>>
            THEN [work EXCEPT !.th[t].pc = "op"]
            ELSE IF th.cache_b_valid
            THEN [work EXCEPT
                    !.st.t_parse_b = "cached",
                    !.th[t] = [@ EXCEPT !.pc = "op",
                                        !.bn_b = work.st.cached_bn_b,
                                        !.hit_b = TRUE]]
            ELSE [work EXCEPT
                    !.st = [@ EXCEPT !.t_parse_b = "ms",
                                     !.cached_bn_b = bn,
                                     !.cache_b_valid = TRUE],
                    !.th[t] = [@ EXCEPT !.pc = "op", !.bn_b = bn,
                                        !.parsed = Append(@, th.sb)]]
    /\ UiRest

\* what the try block computes before anything is written: the operation of
\* switch (selected_op) on the parsed operands
OpResult(th) ==
    LET target == IF th.target_ab = 0 THEN th.bn_a ELSE th.bn_b
    IN CASE th.selected_op = 0 ->
              [kind |-> "number", val |-> bignum_add(th.bn_a, th.bn_b),
               con |-> con_check(th.bn_a, th.bn_b)]
         [] th.selected_op = 1 ->
              [kind |-> "number", val |-> bignum_mul(th.bn_a, th.bn_b)]
         [] th.selected_op = 2 ->
              IF bignum_is_zero(th.bn_b) THEN [kind |-> "divzero"]
              ELSE LET qr == bignum_divmod(th.bn_a, th.bn_b)
                   IN IF qr.err THEN [kind |-> "exception"]
                      ELSE [kind |-> "divmod", q |-> qr.q, r |-> qr.r]
         [] th.selected_op = 3 ->
              LET r == bignum_pow(target, th.exp_val)
              IN IF r.err THEN [kind |-> "exception"]
                 ELSE [kind |-> "number", val |-> r.val]
         [] th.selected_op = 4 ->
              [kind |-> "text",
               text |-> IF bignum_is_prime(target) THEN <<"prostoe">>
                        ELSE <<"sostavnoe">>]
         [] th.selected_op = 5 ->
              LET cmp == bignum_cmp(th.bn_a, th.bn_b)
              IN [kind |-> "text",
                  text |-> IF cmp < 0 THEN <<"A < B">>
                           ELSE IF cmp > 0 THEN <<"A > B">>
                           ELSE <<"A = B">>]

\* the try block: the operation, the return on a zero divisor, the catch
\* clause, and for a number finish_bignum (st.t_op under the lock)
ExecOp(t) ==
    /\ work.th[t].pc = "op"
    /\ \E res \in {OpResult(work.th[t])} :
          work' =
            CASE res.kind = "divzero" ->
                   ExecFail(t, "delenie na nol", "divzero")
              [] res.kind = "exception" ->
                   ExecFail(t, "what()", "exception")
              [] res.kind = "text" ->
                   [work EXCEPT !.th[t] = [@ EXCEPT !.pc = "publish",
                                                    !.text = res.text,
                                                    !.t_op = "ms"]]
              [] res.kind = "number" ->
                   [work EXCEPT
                      !.st.t_op = "ms",
                      !.th[t] = [@ EXCEPT
                         !.pc = "to_dec", !.res = res.val, !.t_op = "ms",
                         !.show_con = (work.th[t].selected_op = 0),
                         !.con = IF work.th[t].selected_op = 0
                                 THEN [ra |-> res.con.ra, rb |-> res.con.rb,
                                       rs |-> res.con.rs, ok |-> res.con.ok]
                                 ELSE NoCon]]
              [] res.kind = "divmod" ->
                   [work EXCEPT
                      !.st.t_op = "ms",
                      !.th[t] = [@ EXCEPT !.pc = "to_dec", !.res = res.q,
                                          !.rem = res.r, !.t_op = "ms"]]
    /\ UiRest

\* bignum_to_decimal of the result (of quotient and remainder after a
\* division)
ExecToDecimal(t) ==
    /\ work.th[t].pc = "to_dec"
    /\ LET th == work.th[t]
       IN work' = [work EXCEPT
             !.th[t] = [@ EXCEPT
                !.pc = "publish",
                !.text = IF th.selected_op = 2
                         THEN <<"divmod", bignum_to_decimal(th.res),
                                bignum_to_decimal(th.rem)>>
                         ELSE <<"number", bignum_to_decimal(th.res)>>,
                !.t_to_dec = "ms"]]
    /\ UiRest

\* the result file, written or not, and the last locked stretch
ExecPublish(t) ==
    /\ work.th[t].pc = "publish"
    /\ \E saved \in BOOLEAN :
          LET th == work.th[t]
          IN work' = [work EXCEPT
                !.st = [@ EXCEPT
                   !.result_text = th.text,
                   !.t_op = th.t_op,
                   !.t_to_dec = th.t_to_dec,
                   !.show_con = th.show_con,
                   !.con = th.con,
                   !.result_stale = FALSE,
                   !.status_msg = IF saved THEN <<"Gotovo">>
                                  ELSE Oshibka("zapisi rezultata"),
                   !.is_working = FALSE],
                !.th[t] = Ended(@, IF saved THEN "success" ELSE "save")]
    /\ UiRest

\* a step of do_execute in thread t
ExecStep(t) ==
    \/ ExecSnapshot(t)
    \/ ExecCheck(t)
    \/ ExecParseA(t)
    \/ ExecParseB(t)
    \/ ExecOp(t)
    \/ ExecToDecimal(t)
    \/ ExecPublish(t)

UiThreads == DOMAIN work.th

NextUi ==
    \/ \E x \in {"a", "b"} : KeyMark(x)
    \/ KeyEdit
    \/ \E x \in {"a", "b"} : BtnLoad(x)
    \/ \E kind \in {"A", "B", "AB"} : BtnGenerate(kind)
    \/ BtnExecute
    \/ \E t \in UiThreads : GenWrite(t)
    \/ \E t \in UiThreads : GenDone(t)
    \/ \E t \in UiThreads : ExecStep(t)

SpecUi == InitUi /\ [][NextUi]_vars

----------------------------------------------------------------------------
(* The parse cache of the front end *)

\* an execute that took the cached path holds the BigNum of the digits it
\* snapshotted
CachedPathRight ==
    \A t \in UiThreads :
       /\ work.th[t].hit_a =>
             work.th[t].bn_a = bignum_from_decimal(work.th[t].sa)
       /\ work.th[t].hit_b =>
             work.th[t].bn_b = bignum_from_decimal(work.th[t].sb)

\* between two events of the UI thread, a valid flag goes with the BigNum of
\* the text that is in the field
ValidFlagRight ==
    work.ui.pc = "idle" =>
       /\ work.st.cache_a_valid =>
             work.st.cached_bn_a =
                bignum_from_decimal(digits_only(work.st.input_a))
       /\ work.st.cache_b_valid =>
             work.st.cached_bn_b =
                bignum_from_decimal(digits_only(work.st.input_b))

\* C27: under every interleaving of typing, Load, Generate and Execute, an
\* execute that takes the cached path for A or B uses the BigNum of the
\* digits of the text it snapshotted, and a flag invalidated by an edit made
\* while a worker runs is not turned valid again with the BigNum of the
\* older text.
C27_CacheCoherent == CachedPathRight /\ ValidFlagRight

----------------------------------------------------------------------------
(* What do_execute hands to bignum_from_decimal *)

\* every string a running execute has parsed has passed
\* bignum_is_valid_decimal
ParsedValid ==
    \A t \in UiThreads :
       \A k \in 1..Len(work.th[t].parsed) :
          bignum_is_valid_decimal(work.th[t].parsed[k])

\* C28: in do_execute bignum_from_decimal is only called on a string that
\* has passed bignum_is_valid_decimal, for every operation and every choice
\* of target operand.
C28_ParseValidated == ParsedValid

\* the same for the operations that use both operands
ParsedValidBothUsed ==
    \A t \in UiThreads :
       work.th[t].selected_op \in {0, 1, 2, 5} =>
          \A k \in 1..Len(work.th[t].parsed) :
             bignum_is_valid_decimal(work.th[t].parsed[k])

\* and for the target operand of the power and of the primality test
ParsedValidTarget ==
    \A t \in UiThreads :
       LET th == work.th[t]
       IN (th.selected_op \in {3, 4} /\ th.pc \in {"parse_b", "op"}) =>
             /\ (th.target_ab = 0 /\ ~th.hit_a) =>
                   bignum_is_valid_decimal(th.sa)
             /\ (th.target_ab = 1 /\ th.pc = "op" /\ ~th.hit_b) =>
                   bignum_is_valid_decimal(th.sb)

----------------------------------------------------------------------------
(* One background job at a time *)

\* the threads that are executing their job
Running == {t \in UiThreads : work.th[t].pc \notin {"none", "done"}}

\* a button handler that found is_working set has changed nothing but the
\* count of clicks
BusyClickStep ==
    (work.st.is_working /\ work.ui.pc = "idle"
       /\ (work'.clicks # work.clicks \/ work'.loads # work.loads))
    => /\ work'.st = work.st
       /\ work'.th = work.th

\* a thread is started only by a handler that found is_working clear, and
\* is_working is set in the same step
StartStep ==
    \A t \in UiThreads :
       (work.th[t].pc = "none" /\ work'.th[t].pc # "none")
       => /\ ~work.st.is_working
          /\ work'.st.is_working
          /\ Running = {}

\* C29: at most one Execute or Generate worker runs at any time; is_working
\* is tested and set in one locked stretch; Execute, Generate and Load
\* pressed while it is set do nothing; it is set whenever a worker is still
\* executing its job.
C29_OneJob ==
    /\ [](Cardinality(Running) <= 1)
    /\ [](Running # {} => work.st.is_working)
    /\ [][BusyClickStep /\ StartStep]_vars

\* a button has been pressed while a worker was running, and a second job
\* has been started after the first had ended
C29_Witness ==
    /\ work.clicks = 2
    /\ \/ /\ work.th[1].pc \notin {"none", "done"}
          /\ work.th[2].pc = "none"
       \/ /\ work.th[1].pc = "done"
          /\ work.th[2].pc \notin {"none", "done"}

----------------------------------------------------------------------------
(* The returns of do_execute *)

\* a step of the thread t, which the scheduler takes sooner or later
ThreadStep(t) == GenWrite(t) \/ GenDone(t) \/ ExecStep(t)

\* every started thread keeps being scheduled
FairSpecUi ==
    /\ SpecUi
    /\ \A t \in 1..MaxClicks :
          \/ []<>(work.th[t].pc \in {"none", "done"})
          \/ []<><<ThreadStep(t)>>_vars

ErrorExits == {"empty", "invalid", "exponent", "divzero", "exception"}

\* the step by which the execute in thread t returns
Returns(t) == work.th[t].job = "exec" /\ work.th[t].pc # "done"
              /\ work'.th[t].pc = "done"

\* every return clears is_working, and counts as the thread's one clearing
ReturnClears(t) ==
    Returns(t) => /\ ~work'.st.is_working
                  /\ work.th[t].clears = 0
                  /\ work'.th[t].clears = 1

\* an error return leaves result_text and result_stale alone and sets a
\* status that starts with the error word
ErrorReturn(t) ==
    (Returns(t) /\ work'.th[t].exit \in ErrorExits)
    => /\ work.th[t].pc \in {"check", "op"}
       /\ work'.st.result_text = work.st.result_text
       /\ work'.st.result_stale = work.st.result_stale
       /\ Len(work'.st.status_msg) = 2
       /\ work'.st.status_msg[1] = "Oshibka"

\* the return at the end sets result_text, clears result_stale and sets the
\* status to the done word or to the save error
SuccessReturn(t) ==
    (Returns(t) /\ work'.th[t].exit \notin ErrorExits)
    => /\ work.th[t].pc = "publish"
       /\ work'.th[t].exit \in {"success", "save"}
       /\ work'.st.result_text = work.th[t].text
       /\ ~work'.st.result_stale
       /\ work'.st.status_msg = IF work'.th[t].exit = "success"
                                THEN <<"Gotovo">>
                                ELSE Oshibka("zapisi rezultata")

\* nothing else sets result_text, clears result_stale or sets the done word
OnlySuccessSets ==
    (\/ work'.st.result_text # work.st.result_text
     \/ work.st.result_stale /\ ~work'.st.result_stale
     \/ work'.st.status_msg = <<"Gotovo">>
           /\ work.st.status_msg # <<"Gotovo">>)
    => \E t \in UiThreads :
          Returns(t) /\ work'.th[t].exit \in {"success", "save"}

\* C30: every started Execute ends by clearing is_working; each return of
\* do_execute clears it exactly once; an error return leaves result_text and
\* result_stale unchanged and sets a status that starts with the error word;
\* only the return at the end sets result_text, clears result_stale and sets
\* the status to the done word or the save error.
C30_ExecuteEnds ==
    /\ \A t \in 1..MaxClicks :
          (work.th[t].job = "exec" /\ work.th[t].pc # "done")
             ~> (work.th[t].pc = "done" /\ work.th[t].clears = 1)
    /\ [](\A t \in UiThreads : work.th[t].clears <= 1)
    /\ [][/\ \A t \in UiThreads :
                ReturnClears(t) /\ ErrorReturn(t) /\ SuccessReturn(t)
          /\ OnlySuccessSets]_vars

\* one execute has returned on a zero divisor and another after a failed
\* write of the result file
C30_Witness ==
    \E t, u \in UiThreads :
       /\ work.th[t].pc = "done" /\ work.th[t].exit = "divzero"
       /\ work.th[u].pc = "done" /\ work.th[u].exit = "save"

====
